---- MODULE Spec2Model ----
(***************************************************************************)
(* Twitter video transcriber: the video-to-transcript pipeline of          *)
(* server/routes.ts (processTwitterVideo, broadcastProgress, the WebSocket *)
(* registry) and server/services/speechToText.ts (extractAudioFromVideo,   *)
(* transcribeAudio), with the request validation of shared/schema.ts, the  *)
(* metadata lookup of server/services/twitterApi.ts and the transcripts    *)
(* table of server/storage.ts.                                             *)
(*                                                                         *)
(* Time is the value of Date.now() in milliseconds.  Synchronous code      *)
(* takes no model time; every await is a separate action.  A message is a  *)
(* sequence of text fragments, cut so that every substring the code looks  *)
(* for with String.includes is a fragment of its own.                      *)
(***************************************************************************)
EXTENDS Integers, Sequences, FiniteSets

\* ------------------------------------------------------------------ bounds
\* the clock of Spec stops advancing freely after MaxTime ms (armed timers
\* may still run out)
MaxTime == 90000
\* with no timer armed the clock of Spec advances by Quantum ms
Quantum == 45000
\* the clock of SpecConc runs for ConcMaxTime ms
ConcMaxTime == 2
\* the clock of SpecObs runs for ObsMaxTime ms
ObsMaxTime == 6000
\* a video attachment has up to MaxVariants variants
MaxVariants == 3
\* a timestamp is less than MaxHours + 1 hours
MaxHours == 1
\* a transcription result has up to MaxChunks chunks
MaxChunks == 2
\* the number of transcripts ever created
MaxRows == 3
\* an error message holds up to MaxPhrases of the phrases the catch block
\* looks for
MaxPhrases == 2
CacheQuantum == 10800000
CacheMaxTime == 97200000

\* ------------------------------------------------------- program constants
TRANSCRIPTION_TIMEOUT == 60000
OVERALL_TIMEOUT == 90000
PROGRESS_INTERVAL == 3000
PROGRESS_CEILING == 80
MAX_INCREMENT == 5

\* --------------------------------------------------------------- universes
Runs == {1, 2}
MainRuns == {1}
Observers == {"o1", "o2"}
Ids == {"id1", "id2"}
NoClient == "none"
NoPath == <<>>
NoEvent == [type |-> "none", overallProgress |-> 0]
Stages == {"metadata", "download", "extract", "transcribe"}

\* --------------------------------------------------------------- messages
Includes(message, fragment) == \E i \in DOMAIN message : message[i] = fragment

\* ------------------------------------------------------------ request URLs
\* A URL is a sequence of text pieces, cut at the places the patterns of
\* twitterUrlSchema and extractTweetId can match.
Urls ==
  { <<"https://", "twitter.com", "/user", "/status/", "123">>,
    <<"https://", "x.com", "/user", "/status/", "123", "?s=20">>,
    <<"https://fede", "x.com", "/user", "/status/", "123">>,
    <<"https://", "twitter.com", "/user">>,
    <<"https://", "twitter.com", "/user", "/status/", "abc">>,
    <<"https://", "twitter.com", "/i/web", "/status/", "123">>,
    <<"https://", "youtube.com", "/watch">>,
    <<"twitter.com", "/user", "/status/", "123">> }
MainUrls == { <<"https://", "twitter.com", "/user", "/status/", "123">> }
\* the posts the cache is asked about, and a URL that names none
TweetIds == {"123", "456"}
CacheUrls ==
  { <<"https://", "twitter.com", "/user", "/status/", "123">>,
    <<"https://", "x.com", "/user", "/status/", "456">>,
    <<"https://", "twitter.com", "/user">> }

\* z.string().url(): the text parses as a URL
IsUrl(url) == url # <<>> /\ url[1] \in {"https://", "https://fede"}
\* the pieces \w+ and \d+ match
IsWord(piece) == piece \in {"/user"}
IsDigits(piece) == piece \in {"123", "456"}
\* /twitter\.com\/\w+\/status\/\d+/i and /x\.com\/\w+\/status\/\d+/i, unanchored:
\* the places of url where `host` followed by /\w+/status/\d+ starts
Matches(url, host) ==
  { i \in DOMAIN url :
      /\ i + 3 <= Len(url)
      /\ url[i] = host
      /\ IsWord(url[i + 1])
      /\ url[i + 2] = "/status/"
      /\ IsDigits(url[i + 3]) }

\* twitterUrlSchema.parse accepts the body's url
twitterUrlSchemaAnyUrl(url) == IsUrl(url)
twitterUrlSchema(url) ==
  IsUrl(url) /\ (Matches(url, "twitter.com") # {} \/ Matches(url, "x.com") # {})

\* fromZodError(err).message for a url the schema rejects
ValidationMessage(url) ==
  <<"Validation error: ">>
  \o (IF IsUrl(url) THEN <<>> ELSE <<"Invalid url">>)
  \o (IF Matches(url, "twitter.com") \cup Matches(url, "x.com") = {}
      THEN <<"Must be a valid Twitter/X video URL">> ELSE <<>>)

\* ---------------------------------------------------------- the Twitter API
Ok(value) == [ok |-> TRUE, value |-> value]
Err(message) == [ok |-> FALSE, message |-> message]

\* extractTweetId: the digits of the first match
extractTweetId(url) ==
  LET hits == Matches(url, "twitter.com") \cup Matches(url, "x.com")
  IN IF hits = {} THEN Err(<<"Invalid Twitter URL format">>)
     ELSE Ok(url[(CHOOSE i \in hits : \A j \in hits : i <= j) + 3])

\* the environment's credentials: which clients the module built
\* (TWITTER_BEARER_TOKEN, TWITTER_API_KEY and TWITTER_API_SECRET set or not)
Credentials == [bearer : BOOLEAN, key : BOOLEAN, secret : BOOLEAN]
NoCredentialsError ==
  Err(<<"No valid Twitter API credentials",
        ": No Twitter Bearer Token available, No Twitter API Key/Secret available">>)
\* the consumer client is tried before the app-only client
getClientConsumerFirst(cred) ==
  IF cred.key /\ cred.secret THEN Ok("consumerClient")
  ELSE IF cred.bearer THEN Ok("appOnlyClient")
  ELSE NoCredentialsError
getClient(cred) ==
  IF cred.bearer THEN Ok("appOnlyClient")
  ELSE IF cred.key /\ cred.secret THEN Ok("consumerClient")
  ELSE NoCredentialsError

\* the variants of a video attachment, in the order the API lists them; a
\* bit_rate of 0 stands for a variant that carries none
VariantKinds ==
  { [content_type |-> "application/x-mpegURL", bit_rate |-> 0],
    [content_type |-> "video/mp4", bit_rate |-> 0],
    [content_type |-> "video/mp4", bit_rate |-> 632000],
    [content_type |-> "video/mp4", bit_rate |-> 2176000] }
VariantLists ==
  UNION { { [i \in 1..n |-> [content_type |-> ks[i].content_type,
                              bit_rate |-> ks[i].bit_rate,
                              url |-> <<"variant", i>>]] :
            ks \in [1..n -> VariantKinds] } : n \in 0..MaxVariants }
PreviewUrl == <<"preview_image">>
NoUrl == <<>>

\* what client.v2.tweets resolves with: data (the posts found) and
\* includes.media (the attachments of the first post)
Attachments ==
  { [media_key |-> "k1", type |-> "photo", variants |-> <<>>, preview_image_url |-> NoUrl] }
  \cup { [media_key |-> "k1", type |-> "video", variants |-> vs, preview_image_url |-> p] :
            vs \in VariantLists, p \in {NoUrl, PreviewUrl} }
Responses ==
  { [data |-> <<>>, media |-> <<>>],
    [data |-> << [media_keys |-> <<>>] >>, media |-> <<>>],
    [data |-> << [media_keys |-> <<"k1">>] >>, media |-> <<>>] }
  \cup { [data |-> << [media_keys |-> <<"k1">>] >>, media |-> << m >>] : m \in Attachments }

\* what the call of client.v2.tweets does
ApiErrors ==
  { <<"Request failed with code ", "429">>,
    <<"Request failed with code 401">> }
Answers == {Err(m) : m \in ApiErrors} \cup {Ok(resp) : resp \in Responses}
Worlds == [cred : Credentials, answer : Answers]

\* getTweetById with an empty cache
getTweetById(world) ==
  LET client == getClient(world.cred)
      thrown == IF client.ok THEN world.answer.message ELSE client.message
  IN IF client.ok /\ world.answer.ok THEN Ok(world.answer.value)
     ELSE IF Includes(thrown, "429")
     THEN Err(<<"Twitter API ", "rate limit", " exceeded. Please try again later.">>)
     ELSE Err(<<"Failed to fetch tweet: ">> \o thrown)

\* [...variants].filter(v => v.content_type === 'video/mp4' && v.bit_rate)
FilterVariants(variants) ==
  SelectSeq(variants, LAMBDA v : v.content_type = "video/mp4" /\ v.bit_rate # 0)

\* Array.prototype.sort with (a, b) => b.bit_rate - a.bit_rate: a stable
\* sort, here by insertion from the left
RECURSIVE InsertAscending(_, _)
InsertAscending(sorted, v) ==
  IF sorted = <<>> THEN << v >>
  ELSE IF v.bit_rate < Head(sorted).bit_rate THEN << v >> \o sorted
  ELSE << Head(sorted) >> \o InsertAscending(Tail(sorted), v)
RECURSIVE InsertDescending(_, _)
InsertDescending(sorted, v) ==
  IF sorted = <<>> THEN << v >>
  ELSE IF v.bit_rate > Head(sorted).bit_rate THEN << v >> \o sorted
  ELSE << Head(sorted) >> \o InsertDescending(Tail(sorted), v)
RECURSIVE SortAscending(_)
SortAscending(variants) ==
  IF variants = <<>> THEN <<>>
  ELSE InsertAscending(SortAscending(SubSeq(variants, 1, Len(variants) - 1)),
                       variants[Len(variants)])
RECURSIVE SortVariants(_)
SortVariants(variants) ==
  IF variants = <<>> THEN <<>>
  ELSE InsertDescending(SortVariants(SubSeq(variants, 1, Len(variants) - 1)),
                        variants[Len(variants)])

\* extractVideoUrl
extractVideoUrl(tweetData) ==
  LET wrap(message) == Err(<<"Failed to extract video URL: ">> \o message)
      found == { i \in DOMAIN tweetData.media :
                   tweetData.media[i].media_key = tweetData.data[1].media_keys[1] }
      media == tweetData.media[CHOOSE i \in found : \A j \in found : i <= j]
      sortedVariants == SortVariants(FilterVariants(media.variants))
  IN IF tweetData.data = <<>> \/ tweetData.data[1].media_keys = <<>>
     THEN wrap(<<"No media found in tweet">>)
     ELSE IF found = {} \/ media.type # "video"
     THEN wrap(<<"No video found", " in tweet">>)
     ELSE IF sortedVariants # <<>> THEN Ok(sortedVariants[1].url)
     ELSE IF media.preview_image_url # NoUrl THEN Ok(media.preview_image_url)
     ELSE wrap(<<"Could not extract video URL from tweet">>)

\* the body of getTwitterVideoInfo's try block with empty caches: the
\* video info, or the message of the error its catch block receives
getTwitterVideoInfoTry(url, world) ==
  LET tweetId == extractTweetId(url)
      tweetData == getTweetById(world)
      videoUrl == extractVideoUrl(tweetData.value)
  IN IF ~tweetId.ok THEN tweetId
     ELSE IF ~tweetData.ok THEN tweetData
     ELSE IF ~videoUrl.ok THEN videoUrl
     ELSE IF videoUrl.value = NoUrl THEN Err(<<"No video found", " in tweet">>)
     ELSE Ok([tweetId |-> tweetId.value, videoUrl |-> videoUrl.value])

\* getTwitterVideoInfo: the video info, or the error its catch block throws
getTwitterVideoInfo(url, world) ==
  LET tried == getTwitterVideoInfoTry(url, world)
  IN IF tried.ok THEN tried
     ELSE Err(<<"Failed to get Twitter video info: ">> \o tried.message)

\* what the twitter client, axios, ffmpeg and the model runtime may report
TwitterFailures ==
  { getTwitterVideoInfoTry(url, world).message :
      <<url, world>> \in { uw \in MainUrls \X Worlds :
                             ~getTwitterVideoInfoTry(uw[1], uw[2]).ok } }
AxiosFailures ==
  { <<"Request failed with status code 404">>,
    <<"Request failed with status code ", "429">>,
    <<"socket hang up">> }
FfmpegFailures ==
  { <<"ffmpeg exited with code 1">>,
    <<"ffmpeg was killed with signal SIGKILL">>,
    <<"Cannot allocate ", "memory">> }
ModelFailures ==
  { <<"Could not locate file">>,
    <<"failed to allocate ", "memory">>,
    <<"Request ", "timed out">> }

getTwitterVideoInfoError(inner) == <<"Failed to get Twitter video info: ">> \o inner
downloadVideoError(inner) == <<"Failed to download video: ">> \o inner
FfmpegError(inner) == <<"FFmpeg error: ">> \o inner
extractAudioError(inner) == <<"Failed to extract audio: ">> \o inner
Enoent(call) == <<"ENOENT: no such file or directory, ", call>>

TimerMessage60 == <<"Transcription ", "timed out", " after 60 seconds">>
TimerMessage90 == <<"Transcription process ", "timed out", " after 90 seconds">>

\* transcribeAudio's catch block: the message of the error it throws
TranscribeErrorMessage(message) ==
  IF Includes(message, "timed out")
  THEN <<"Transcription ", "timed out", ". The video may be too long or the server is under high load.">>
  ELSE IF Includes(message, "memory")
  THEN <<"Server ran out of ", "memory", " while processing. Please try with a shorter video.">>
  ELSE <<"Transcription error: ">> \o message

\* 'memory' is looked for before 'timed out'
ClassifyMemoryFirst(message) ==
  IF Includes(message, "rate limit") \/ Includes(message, "429") THEN "RateLimited"
  ELSE IF Includes(message, "No video found") THEN "NoVideoFound"
  ELSE IF Includes(message, "Tweet not found") THEN "NotFound"
  ELSE IF Includes(message, "No valid Twitter API credentials") THEN "NoCredentials"
  ELSE IF Includes(message, "memory") THEN "OutOfMemory"
  ELSE IF Includes(message, "timed out") THEN "Timeout"
  ELSE "Unknown"
\* processTwitterVideo's catch block: the category of an Error's message
ClassifyNoTimeout(message) ==
  IF Includes(message, "rate limit") \/ Includes(message, "429") THEN "RateLimited"
  ELSE IF Includes(message, "No video found") THEN "NoVideoFound"
  ELSE IF Includes(message, "Tweet not found") THEN "NotFound"
  ELSE IF Includes(message, "No valid Twitter API credentials") THEN "NoCredentials"
  ELSE IF Includes(message, "memory") THEN "OutOfMemory"
  ELSE "Unknown"
Classify(message) ==
  IF Includes(message, "rate limit") \/ Includes(message, "429") THEN "RateLimited"
  ELSE IF Includes(message, "No video found") THEN "NoVideoFound"
  ELSE IF Includes(message, "Tweet not found") THEN "NotFound"
  ELSE IF Includes(message, "No valid Twitter API credentials") THEN "NoCredentials"
  ELSE IF Includes(message, "timed out") THEN "Timeout"
  ELSE IF Includes(message, "memory") THEN "OutOfMemory"
  ELSE "Unknown"

\* the out-of-memory branch broadcasts the text of the timeout branch
BroadcastMessageCopied(message) ==
  CASE Classify(message) = "RateLimited" -> <<"Twitter API ", "rate limit", " exceeded. Please try again later.">>
    [] Classify(message) = "NoVideoFound" -> <<"No video found", " in the tweet. Please try a different tweet URL.">>
    [] Classify(message) = "NotFound" -> <<"Tweet not found", ". The tweet may be private or deleted.">>
    [] Classify(message) = "NoCredentials" -> <<"Twitter API ", "credentials", " are missing or invalid.">>
    [] Classify(message) \in {"Timeout", "OutOfMemory"} -> <<"Transcription process ", "timed out", ". Try a shorter video or try again later.">>
    [] OTHER -> <<"Error: ">> \o message

\* the message of the Error event the catch block broadcasts
BroadcastMessage(message) ==
  CASE Classify(message) = "RateLimited" -> <<"Twitter API ", "rate limit", " exceeded. Please try again later.">>
    [] Classify(message) = "NoVideoFound" -> <<"No video found", " in the tweet. Please try a different tweet URL.">>
    [] Classify(message) = "NotFound" -> <<"Tweet not found", ". The tweet may be private or deleted.">>
    [] Classify(message) = "NoCredentials" -> <<"Twitter API ", "credentials", " are missing or invalid.">>
    [] Classify(message) = "Timeout" -> <<"Transcription process ", "timed out", ". Try a shorter video or try again later.">>
    [] Classify(message) = "OutOfMemory" -> <<"Server ran out of ", "memory", ". Please try a shorter video.">>
    [] OTHER -> <<"Error: ">> \o message

\* every branch throws the text of the non-Error branch
ThrownMessageGeneric(message) ==
  <<"Failed to process Twitter video. Unknown error occurred.">>

\* the message of the error the catch block throws to the caller
ThrownMessage(message) ==
  CASE Classify(message) = "RateLimited" -> <<"Twitter API ", "rate limit", " exceeded. Please try again in a few minutes.">>
    [] Classify(message) = "NoVideoFound" -> <<"No video found", " in the tweet. Please try a different tweet URL.">>
    [] Classify(message) = "NotFound" -> <<"Tweet not found", ". The tweet may be private or deleted.">>
    [] Classify(message) = "NoCredentials" -> <<"Twitter API ", "credentials", " are missing or invalid. Please check your environment variables.">>
    [] Classify(message) = "Timeout" -> <<"Transcription process ", "timed out", ". The video may be too long or complex for processing.">>
    [] Classify(message) = "OutOfMemory" -> <<"Server ran out of ", "memory", " while processing. Please try a shorter video.">>
    [] OTHER -> message

\* --------------------------------------------------------- formatTimestamp
\* A number of seconds is the double nearest to whole + hundredths / 100.
Hundredths == 0..99
Seconds ==
  [ whole : { h * 3600 + m * 60 + sec : h \in 0..MaxHours, m \in {0, 1, 59}, sec \in {0, 15, 59} },
    hundredths : Hundredths ]
Formats == {"none", "seconds", "detailed"}

RECURSIVE Pow2(_)
Pow2(n) == IF n <= 0 THEN 1 ELSE 2 * Pow2(n - 1)
RECURSIVE Pow2Mod100(_)
Pow2Mod100(n) == IF n <= 0 THEN 1 ELSE (2 * Pow2Mod100(n - 1)) % 100
RECURSIVE Log2(_)
Log2(n) == IF n < 2 THEN 0 ELSE 1 + Log2(n \div 2)
RECURSIVE Log2Below1(_, _)
Log2Below1(hundredths, e) ==
  IF hundredths * Pow2(-e) >= 100 THEN e ELSE Log2Below1(hundredths, e - 1)

\* the binary exponent of the double: 2^e <= seconds < 2^(e+1)
Exponent(seconds) ==
  IF seconds.whole >= 1 THEN Log2(seconds.whole) ELSE Log2Below1(seconds.hundredths, -1)

\* Math.floor((seconds - totalSeconds) * 100) in IEEE 754 double arithmetic.
\* The double keeps 52 - e binary places of the fraction; `rem` is what the
\* nearest such fraction, times 100, lacks to hundredths (in units of
\* 2^-(52-e)) when it is below; the product is rounded to 53 bits, where
\* the doubles just below hundredths have exponent a, so it stays below
\* hundredths iff rem > 2^(a-e-1).  The subtraction is exact.
FloorFraction100(seconds) ==
  LET cs == seconds.hundredths
      e == Exponent(seconds)
      rem == (cs * Pow2Mod100(52 - e)) % 100
      a == IF cs = 1 THEN -1 ELSE Log2(cs - 1)
  IN IF cs = 0 THEN 0
     ELSE IF rem > 0 /\ rem < 50 /\ (a - e - 1 < 0 \/ rem > Pow2(a - e - 1))
     THEN cs - 1 ELSE cs

\* Number.prototype.toString of a non-negative integer, as its characters
Digit(d) == << "0", "1", "2", "3", "4", "5", "6", "7", "8", "9" >>[d + 1]
RECURSIVE ToString(_)
ToString(n) == IF n < 10 THEN << Digit(n) >> ELSE ToString(n \div 10) \o << Digit(n % 10) >>
\* .padStart(2, '0')
PadStart2(text) == IF Len(text) < 2 THEN << "0" >> \o text ELSE text
\* seconds.toString()
NumberToString(seconds) ==
  ToString(seconds.whole)
  \o (IF seconds.hundredths = 0 THEN <<>>
      ELSE IF seconds.hundredths % 10 = 0
      THEN << ".", Digit(seconds.hundredths \div 10) >>
      ELSE << "." >> \o PadStart2(ToString(seconds.hundredths)))

\* the 'seconds' format switches to h:mm:ss from one hour on
formatTimestampHours(seconds, format) ==
  LET totalSeconds == seconds.whole
      minutes == totalSeconds \div 60
      remainingSeconds == totalSeconds % 60
  IN IF format = "none" THEN <<>>
     ELSE IF format = "seconds"
     THEN IF minutes < 60
          THEN ToString(minutes) \o << ":" >> \o PadStart2(ToString(remainingSeconds))
          ELSE ToString(minutes \div 60) \o << ":" >> \o PadStart2(ToString(minutes % 60))
               \o << ":" >> \o PadStart2(ToString(remainingSeconds))
     ELSE PadStart2(ToString(minutes \div 60)) \o << ":" >>
          \o PadStart2(ToString(minutes % 60)) \o << ":" >>
          \o PadStart2(ToString(remainingSeconds)) \o << "." >>
          \o PadStart2(ToString(FloorFraction100(seconds)))
\* the 'none' format is not handled and falls through to seconds.toString()
formatTimestampNoNone(seconds, format) ==
  LET totalSeconds == seconds.whole
      minutes == totalSeconds \div 60
      remainingSeconds == totalSeconds % 60
  IN IF format = "seconds"
     THEN ToString(minutes) \o << ":" >> \o PadStart2(ToString(remainingSeconds))
     ELSE IF format = "detailed"
     THEN PadStart2(ToString(minutes \div 60)) \o << ":" >>
          \o PadStart2(ToString(minutes % 60)) \o << ":" >>
          \o PadStart2(ToString(remainingSeconds)) \o << "." >>
          \o PadStart2(ToString(FloorFraction100(seconds)))
     ELSE NumberToString(seconds)

\* formatTimestamp(seconds, format), as the characters of the string
formatTimestamp(seconds, format) ==
  LET totalSeconds == seconds.whole
      minutes == totalSeconds \div 60
      remainingSeconds == totalSeconds % 60
      hours == minutes \div 60
      remainingMinutes == minutes % 60
      milliseconds == FloorFraction100(seconds)
  IN IF format = "none" THEN <<>>
     ELSE IF format = "seconds"
     THEN ToString(minutes) \o << ":" >> \o PadStart2(ToString(remainingSeconds))
     ELSE IF format = "detailed"
     THEN PadStart2(ToString(hours)) \o << ":" >>
          \o PadStart2(ToString(remainingMinutes)) \o << ":" >>
          \o PadStart2(ToString(remainingSeconds)) \o << "." >>
          \o PadStart2(ToString(milliseconds))
     ELSE NumberToString(seconds)

\* what the transcriber resolves with: chunks (the start of each) or, when
\* chunks is not an array, the text alone
ChunkStarts ==
  { [whole |-> 0, hundredths |-> 0], [whole |-> 15, hundredths |-> 50],
    [whole |-> 3660, hundredths |-> 0] }
TranscriberResults ==
  { [isArray |-> FALSE, chunks |-> <<>>] }
  \cup UNION { { [isArray |-> TRUE, chunks |-> cs] : cs \in [1..n -> ChunkStarts] } : n \in 0..MaxChunks }

\* transcribeAudio's segments, by their timestamps
Segments(result, format) ==
  IF result.isArray
  THEN [i \in DOMAIN result.chunks |-> [timestamp |-> formatTimestamp(result.chunks[i], format)]]
  ELSE << [timestamp |-> <<>>] >>

\* the duration is taken from the first segment
DurationOfFirst(segments) ==
  IF Len(segments) > 0 /\ segments[1].timestamp # <<>>
  THEN segments[1].timestamp ELSE << "0", ":", "0", "0" >>
\* processTwitterVideo's duration: `lastSegment.timestamp || "0:00"`
Duration(segments) ==
  IF Len(segments) > 0 /\ segments[Len(segments)].timestamp # <<>>
  THEN segments[Len(segments)].timestamp ELSE << "0", ":", "0", "0" >>

\* ------------------------------------------------------- broadcastProgress
\* Math.round of hundredths / 100, for a non-negative numerator
Round100(hundredths) == (hundredths + 50) \div 100
Min(a, b) == IF a <= b THEN a ELSE b

OverallProgressNoBase(step, stepProgress) ==
  Min(Round100(stepProgress * 25), 100)
\* the share is truncated, not rounded
OverallProgressFloor(step, stepProgress) ==
  Min(((step - 1) * 2500 + stepProgress * 25) \div 100, 100)
OverallProgress(step, stepProgress) ==
  Min(Round100((step - 1) * 2500 + stepProgress * 25), 100)

StepStatus(stepProgress) ==
  IF stepProgress = 100 THEN "completed"
  ELSE IF stepProgress > 0 THEN "active"
  ELSE "pending"

\* the payload broadcastProgress(step, stepProgress, message) serializes
broadcastProgress(step, stepProgress, message) ==
  IF step = 0
  THEN [type |-> "error", message |-> message, overallProgress |-> stepProgress]
  ELSE [type |-> "progress", step |-> step, progress |-> stepProgress,
        status |-> StepStatus(stepProgress), message |-> message,
        overallProgress |-> OverallProgress(step, stepProgress)]

\* the catch block of processTwitterVideo publishes once, then throws
CatchPublishNothingOnMemory(message) ==
  IF Classify(message) = "OutOfMemory" THEN <<>>
  ELSE << broadcastProgress(0, 100, BroadcastMessage(message)) >>
CatchPublish(message) == << broadcastProgress(0, 100, BroadcastMessage(message)) >>

\* what the catch block can be entered with: an Error whose message holds
\* some of the phrases looked for, in some order, or a value that is not an
\* Error
Fragments ==
  {"rate limit", "429", "No video found", "Tweet not found",
   "No valid Twitter API credentials", "timed out", "memory", "ffmpeg exited with code 1"}
ThrownValues ==
  {[isError |-> TRUE, message |-> m] : m \in UNION {[1..n -> Fragments] : n \in 0..MaxPhrases}}
  \cup {[isError |-> FALSE, message |-> <<"rejected with a string">>]}

\* the catch block of processTwitterVideo on the value it caught: the Error
\* event it broadcasts and the message of the Error it throws
catch(error) ==
  IF error.isError
  THEN [category |-> Classify(error.message),
        event |-> broadcastProgress(0, 100, BroadcastMessage(error.message)),
        thrown |-> ThrownMessage(error.message)]
  ELSE [category |-> "NotAnError",
        event |-> broadcastProgress(0, 100,
                    <<"Failed to process Twitter video. Please try again later.">>),
        thrown |-> <<"Failed to process Twitter video. Unknown error occurred.">>]

\* the readyState test of the fan-out loop
ShouldSendAlways(state) == TRUE
ShouldSend(state) == state = "OPEN"

\* ------------------------------------------------------------------- state
VARIABLES
  now,                \* Date.now()
  files,              \* the paths that exist in tmp/
  pc,                 \* where each run of processTwitterVideo is
  audioPath,          \* processTwitterVideo's audioPath (NoPath = null)
  videoPath,          \* extractAudioFromVideo's videoPath
  wavPath,            \* extractAudioFromVideo's audioPath
  currentProgress,    \* the ticker's currentProgress
  progressInterval,   \* setInterval handle: {} or {next expiry}
  transcriptionTimer, \* transcribeAudio's 60 s setTimeout: {} or {expiry}
  overallTimer,       \* processTwitterVideo's 90 s setTimeout: {} or {expiry}
  modelLoads,         \* calls of pipeline() so far
  clients,            \* the registry Map: id -> observer
  readyState,         \* each observer socket's readyState
  clientId,           \* the id the connection handler gave each observer
  out,                \* what the last step published
  sends,              \* what the last step sent to each observer
  got,                \* per observer: what its socket has been sent so far
  transcripts,        \* the rows of the transcripts table
  transcriptCurrentId, \* the id the next row gets (the serial column)
  call,               \* the service call made last, with its result
  cache,              \* twitterApi's cache: the tweets and videoUrls maps
  lookup,             \* per caller: its call of getTwitterVideoInfo
  hist                \* per run: what it has done so far

vars == << now, files, pc, audioPath, videoPath, wavPath, currentProgress,
           progressInterval, transcriptionTimer, overallTimer, modelLoads,
           clients, readyState, clientId, out, sends, got, transcripts,
           transcriptCurrentId, call, cache, lookup, hist >>

runVars == << pc, audioPath, videoPath, wavPath, currentProgress,
              progressInterval, transcriptionTimer, overallTimer, modelLoads,
              files, hist >>
observerVars == << clients, readyState, clientId >>
storeVars == << transcripts, transcriptCurrentId >>
cacheVars == << cache, lookup >>
serviceVars == << storeVars, call, cacheVars >>

Racing == {"loading", "inferring"}
Awaiting == {"metadata", "download", "extract", "loading", "inferring"}
Settled == {"done", "failed"}

NoHist ==
  [ lastEvent |-> NoEvent, errorEvents |-> 0, stageError |-> <<>>, thrown |-> <<>>,
    invoked |-> [s \in Stages |-> 0], outcome |-> [s \in Stages |-> "none"],
    completed |-> {},
    downloadAt |-> 0, transcribeAt |-> 0, settledAt |-> 0,
    timeoutBy |-> "none", timeoutPhase |-> "none", abandoned |-> "none",
    audioCreated |-> FALSE,
    url |-> <<>>, response |-> [status |-> 0, message |-> <<>>, transcript |-> 0] ]

\* a socket that has been sent nothing
NoInbox == [first |-> "none", acks |-> 0, ackId |-> NoClient, events |-> FALSE]
NoCall == [fn |-> "none"]
\* Map.get of a key the map lacks
NoItem == [present |-> FALSE]
\* a caller that has not called getTwitterVideoInfo
NoLookup == [phase |-> "idle"]

NoPublish == [run |-> 0, events |-> <<>>]

Init ==
  /\ now = 0
  /\ files = {}
  /\ pc = [r \in Runs |-> "idle"]
  /\ audioPath = [r \in Runs |-> NoPath]
  /\ videoPath = [r \in Runs |-> NoPath]
  /\ wavPath = [r \in Runs |-> NoPath]
  /\ currentProgress = [r \in Runs |-> 0]
  /\ progressInterval = [r \in Runs |-> {}]
  /\ transcriptionTimer = [r \in Runs |-> {}]
  /\ overallTimer = [r \in Runs |-> {}]
  /\ modelLoads = 0
  /\ clients = [i \in Ids |-> NoClient]
  /\ readyState = [o \in Observers |-> "CLOSED"]
  /\ clientId = [o \in Observers |-> NoClient]
  /\ out = NoPublish
  /\ sends = [o \in Observers |-> <<>>]
  /\ got = [o \in Observers |-> NoInbox]
  /\ transcripts = <<>>
  /\ transcriptCurrentId = 1
  /\ call = NoCall
  /\ cache = [tweets |-> [id \in TweetIds |-> NoItem],
              videoUrls |-> [id \in TweetIds |-> NoItem]]
  /\ lookup = [r \in Runs |-> NoLookup]
  /\ hist = [r \in Runs |-> NoHist]

\* ---------------------------------------------------------------- publish
\* clients.forEach: the observers the registry holds that pass the test
Fanout(events) ==
  [o \in Observers |->
     IF (\E i \in Ids : clients[i] = o) /\ ShouldSend(readyState[o])
     THEN events ELSE <<>>]

CountErrors(events) == Cardinality({i \in DOMAIN events : events[i].type = "error"})
CompletedSteps(events) ==
  {events[i].step : i \in {j \in DOMAIN events :
                             events[j].type = "progress" /\ events[j].progress = 100}}
StepOf(e) == IF e.type = "progress" THEN e.step ELSE 0

\* the run's record after it published events (in this order)
Published(h, events) ==
  IF events = <<>> THEN h
  ELSE [h EXCEPT !.lastEvent = events[Len(events)],
                 !.errorEvents = @ + CountErrors(events),
                 !.completed = @ \cup CompletedSteps(events)]

\* a socket's inbox after ws.send of each of messages
Received(inbox, messages) ==
  LET acks == {i \in DOMAIN messages : messages[i].type = "connection"}
  IN [first |-> IF inbox.first = "none" /\ messages # <<>>
                THEN messages[1].type ELSE inbox.first,
      acks |-> inbox.acks + Cardinality(acks),
      ackId |-> IF acks = {} THEN inbox.ackId
                ELSE messages[CHOOSE i \in acks : \A j \in acks : i <= j].clientId,
      events |-> inbox.events \/ \E i \in DOMAIN messages : messages[i].type # "connection"]

Publish(r, events) ==
  /\ out' = [run |-> r, events |-> events]
  /\ sends' = Fanout(events)
  /\ got' = [o \in Observers |-> Received(got[o], Fanout(events)[o])]

Silent ==
  /\ out' = NoPublish
  /\ sends' = [o \in Observers |-> <<>>]
  /\ got' = got

\* ------------------------------------------------------------ the pipeline
Msg(text) == << text >>
Path(kind, stamp) == << kind, stamp >>

\* `if (audioPath && fs.existsSync(audioPath)) fs.unlinkSync(audioPath)`
Cleanup(fs, path) == IF path # NoPath /\ path \in fs THEN fs \ {path} ELSE fs

\* the run's record after the catch block of processTwitterVideo
Failed(h, message) ==
  [Published(h, CatchPublish(message)) EXCEPT
     !.stageError = message,
     !.thrown = Append(@, ThrownMessage(message)),
     !.response = [status |-> 500, message |-> ThrownMessage(message), transcript |-> 0],
     !.settledAt = now]

\* the catch block of processTwitterVideo, entered with `error.message`,
\* the file system as fs and the run's record as h
Catch(r, message, fs, h) ==
  /\ files' = Cleanup(fs, audioPath[r])
  /\ Publish(r, CatchPublish(message))
  /\ hist' = [hist EXCEPT ![r] = Failed(h, message)]
  /\ pc' = [pc EXCEPT ![r] = "failed"]

\* POST /transcribe with a body the schema rejects: 400, nothing else
Reject(r, url) ==
  /\ pc[r] = "idle"
  /\ ~twitterUrlSchema(url)
  /\ pc' = [pc EXCEPT ![r] = "rejected"]
  /\ hist' = [hist EXCEPT ![r].url = url,
                          ![r].response = [status |-> 400, message |-> ValidationMessage(url),
                                           transcript |-> 0]]
  /\ Silent
  /\ UNCHANGED << now, files, audioPath, videoPath, wavPath, currentProgress,
                  progressInterval, transcriptionTimer, overallTimer, modelLoads,
                  observerVars, serviceVars >>

\* POST /transcribe with a valid body: processTwitterVideo up to the first await
Start(r, url) ==
  /\ pc[r] = "idle"
  /\ twitterUrlSchema(url)
  /\ pc' = [pc EXCEPT ![r] = "metadata"]
  /\ Publish(r, << broadcastProgress(1, 10, Msg("Connecting to Twitter API...")) >>)
  /\ hist' = [hist EXCEPT ![r] =
       [Published(@, << broadcastProgress(1, 10, Msg("Connecting to Twitter API...")) >>)
          EXCEPT !.invoked["metadata"] = @ + 1, !.outcome["metadata"] = "running",
                 !.url = url]]
  /\ UNCHANGED << now, files, audioPath, videoPath, wavPath, currentProgress,
                  progressInterval, transcriptionTimer, overallTimer, modelLoads,
                  observerVars, serviceVars >>

MetadataEventsSwapped ==
  << broadcastProgress(2, 10, Msg("Starting video download...")),
     broadcastProgress(1, 100, Msg("Successfully fetched video details from Twitter")) >>
MetadataEvents ==
  << broadcastProgress(1, 100, Msg("Successfully fetched video details from Twitter")),
     broadcastProgress(2, 10, Msg("Starting video download...")) >>

\* getTwitterVideoInfo resolves; downloadVideo is called
MetadataOk(r) ==
  /\ pc[r] = "metadata"
  /\ pc' = [pc EXCEPT ![r] = "download"]
  /\ Publish(r, MetadataEvents)
  /\ hist' = [hist EXCEPT ![r] =
       [Published(@, MetadataEvents)
          EXCEPT !.outcome["metadata"] = "ok", !.invoked["download"] = @ + 1,
                 !.outcome["download"] = "running", !.downloadAt = now]]
  /\ UNCHANGED << now, files, audioPath, videoPath, wavPath, currentProgress,
                  progressInterval, transcriptionTimer, overallTimer, modelLoads,
                  observerVars, serviceVars >>

\* getTwitterVideoInfo rejects
MetadataFail(r, failure) ==
  /\ pc[r] = "metadata"
  /\ Catch(r, getTwitterVideoInfoError(failure), files,
           [hist[r] EXCEPT !.outcome["metadata"] = "failed"])
  /\ UNCHANGED << now, audioPath, videoPath, wavPath, currentProgress,
                  progressInterval, transcriptionTimer, overallTimer, modelLoads,
                  observerVars, serviceVars >>

DownloadEvents ==
  << broadcastProgress(2, 100, Msg("Video downloaded successfully")),
     broadcastProgress(3, 10, Msg("Extracting audio from video...")) >>

\* downloadVideo resolves; extractAudioFromVideo writes the video file and
\* starts ffmpeg
DownloadOk(r) ==
  /\ pc[r] = "download"
  /\ pc' = [pc EXCEPT ![r] = "extract"]
  /\ Publish(r, DownloadEvents)
  /\ videoPath' = [videoPath EXCEPT ![r] = Path("video", now)]
  /\ wavPath' = [wavPath EXCEPT ![r] = Path("audio", now)]
  /\ files' = files \cup {Path("video", now)}
  /\ hist' = [hist EXCEPT ![r] =
       [Published(@, DownloadEvents)
          EXCEPT !.outcome["download"] = "ok", !.invoked["extract"] = @ + 1,
                 !.outcome["extract"] = "running"]]
  /\ UNCHANGED << now, audioPath, currentProgress, progressInterval,
                  transcriptionTimer, overallTimer, modelLoads, observerVars, serviceVars >>

\* downloadVideo rejects and is called again
DownloadFailRetry(r, failure) ==
  /\ pc[r] = "download"
  /\ hist[r].invoked["download"] < 2
  /\ hist' = [hist EXCEPT ![r].outcome["download"] = "failed",
                          ![r].invoked["download"] = @ + 1]
  /\ Silent
  /\ UNCHANGED << now, files, pc, audioPath, videoPath, wavPath, currentProgress,
                  progressInterval, transcriptionTimer, overallTimer, modelLoads,
                  observerVars, serviceVars >>

\* downloadVideo rejects
DownloadFail(r, failure) ==
  /\ pc[r] = "download"
  /\ Catch(r, downloadVideoError(failure), files,
           [hist[r] EXCEPT !.outcome["download"] = "failed"])
  /\ UNCHANGED << now, audioPath, videoPath, wavPath, currentProgress,
                  progressInterval, transcriptionTimer, overallTimer, modelLoads,
                  observerVars, serviceVars >>

ExtractEvents ==
  << broadcastProgress(3, 100, Msg("Audio extracted successfully")),
     broadcastProgress(4, 10, Msg("Beginning transcription process...")) >>

\* pipeline('automatic-speech-recognition', ...): the loads after one more call
pipelineShared(loads) == IF loads = 0 THEN 1 ELSE loads
pipeline(loads) == loads + 1

\* ffmpeg ends.  extractAudioFromVideo unlinks the video file and returns;
\* processTwitterVideo starts the ticker, calls transcribeAudio (which reads
\* the audio file, calls pipeline() and arms its 60 s timer) and arms its
\* own 90 s timer.  unlinkSync of a missing video file throws.
ExtractOk(r) ==
  /\ pc[r] = "extract"
  /\ LET fs1 == files \cup {wavPath[r]}
         h1 == [hist[r] EXCEPT !.audioCreated = TRUE]
     IN IF videoPath[r] \in fs1
        THEN /\ files' = fs1 \ {videoPath[r]}
             /\ audioPath' = [audioPath EXCEPT ![r] = wavPath[r]]
             /\ Publish(r, ExtractEvents)
             /\ currentProgress' = [currentProgress EXCEPT ![r] = 10]
             /\ progressInterval' = [progressInterval EXCEPT ![r] = {now + PROGRESS_INTERVAL}]
             /\ modelLoads' = pipeline(modelLoads)
             /\ transcriptionTimer' = [transcriptionTimer EXCEPT ![r] = {now + TRANSCRIPTION_TIMEOUT}]
             /\ overallTimer' = [overallTimer EXCEPT ![r] = {now + OVERALL_TIMEOUT}]
             /\ pc' = [pc EXCEPT ![r] = "loading"]
             /\ hist' = [hist EXCEPT ![r] =
                  [Published(h1, ExtractEvents)
                     EXCEPT !.outcome["extract"] = "ok", !.invoked["transcribe"] = @ + 1,
                            !.outcome["transcribe"] = "running", !.transcribeAt = now]]
        ELSE /\ Catch(r, extractAudioError(Enoent("unlink")), fs1,
                      [h1 EXCEPT !.outcome["extract"] = "failed"])
             /\ UNCHANGED << audioPath, currentProgress, progressInterval, modelLoads,
                             transcriptionTimer, overallTimer >>
  /\ UNCHANGED << now, videoPath, wavPath, observerVars, serviceVars >>

\* ffmpeg reports an error, having created the output file or not
ExtractFail(r, failure, partial) ==
  /\ pc[r] = "extract"
  /\ Catch(r, extractAudioError(FfmpegError(failure)),
           IF partial THEN files \cup {wavPath[r]} ELSE files,
           [hist[r] EXCEPT !.outcome["extract"] = "failed", !.audioCreated = partial])
  /\ UNCHANGED << now, audioPath, videoPath, wavPath, currentProgress,
                  progressInterval, transcriptionTimer, overallTimer, modelLoads,
                  observerVars, serviceVars >>

\* transcribeAudio's `if (fs.existsSync(audioPath)) fs.unlinkSync(audioPath)`
TranscribeCleanup(fs, path) == IF path \in fs THEN fs \ {path} ELSE fs

\* the catch block around the race leaves the ticker running
TranscribeCatchTicking(r, message, h) ==
  /\ progressInterval' = progressInterval
  /\ Catch(r, TranscribeErrorMessage(message), TranscribeCleanup(files, audioPath[r]),
           [h EXCEPT !.outcome["transcribe"] = "failed"])

\* transcribeAudio's catch block with `error.message`, then the catch blocks
\* of processTwitterVideo: clearInterval, rethrow, cleanup, classify
TranscribeCatch(r, message, h) ==
  /\ progressInterval' = [progressInterval EXCEPT ![r] = {}]
  /\ Catch(r, TranscribeErrorMessage(message), TranscribeCleanup(files, audioPath[r]),
           [h EXCEPT !.outcome["transcribe"] = "failed"])

\* pipeline() resolves; the transcriber is invoked
ModelLoaded(r) ==
  /\ pc[r] = "loading"
  /\ pc' = [pc EXCEPT ![r] = "inferring"]
  /\ Silent
  /\ UNCHANGED << now, files, audioPath, videoPath, wavPath, currentProgress,
                  progressInterval, transcriptionTimer, overallTimer, modelLoads,
                  hist, observerVars, serviceVars >>

\* pipeline() rejects
ModelFail(r, failure) ==
  /\ pc[r] = "loading"
  /\ TranscribeCatch(r, failure, hist[r])
  /\ UNCHANGED << now, audioPath, videoPath, wavPath, currentProgress,
                  transcriptionTimer, overallTimer, modelLoads, observerVars, serviceVars >>

\* the transcriber rejects
InferFail(r, failure) ==
  /\ pc[r] = "inferring"
  /\ TranscribeCatch(r, failure, hist[r])
  /\ UNCHANGED << now, audioPath, videoPath, wavPath, currentProgress,
                  transcriptionTimer, overallTimer, modelLoads, observerVars, serviceVars >>

\* the run returns after "Formatting transcript..."
FinishEventsUnfinished ==
  << broadcastProgress(4, 90, Msg("Formatting transcript...")) >>
FinishEvents ==
  << broadcastProgress(4, 90, Msg("Formatting transcript...")),
     broadcastProgress(4, 100, Msg("Transcription completed successfully")) >>

\* the transcriber resolves.  transcribeAudio unlinks the audio file (which
\* throws when the file is missing) and returns; processTwitterVideo clears
\* the ticker, publishes, cleans up and returns the transcript
InferOk(r) ==
  /\ pc[r] = "inferring"
  /\ IF audioPath[r] \in files
     THEN /\ files' = Cleanup(files \ {audioPath[r]}, audioPath[r])
          /\ progressInterval' = [progressInterval EXCEPT ![r] = {}]
          /\ Publish(r, FinishEvents)
          /\ pc' = [pc EXCEPT ![r] = "done"]
          /\ hist' = [hist EXCEPT ![r] =
               [Published(@, FinishEvents)
                  EXCEPT !.outcome["transcribe"] = "ok", !.settledAt = now]]
     ELSE TranscribeCatch(r, Enoent("unlink"), hist[r])
  /\ UNCHANGED << now, audioPath, videoPath, wavPath, currentProgress,
                  transcriptionTimer, overallTimer, modelLoads, observerVars, serviceVars >>

\* the 60 s timer fires but the pending race does not see it
TranscriptionTimeoutUnraced(r) ==
  /\ \E d \in transcriptionTimer[r] : now >= d
  /\ transcriptionTimer' = [transcriptionTimer EXCEPT ![r] = {}]
  /\ hist' = [hist EXCEPT ![r] =
       IF pc[r] \in Racing
       THEN [@ EXCEPT !.timeoutBy = "transcription", !.timeoutPhase = pc[r]]
       ELSE @]
  /\ Silent
  /\ UNCHANGED << now, files, pc, audioPath, videoPath, wavPath, currentProgress,
                  progressInterval, overallTimer, modelLoads, observerVars, serviceVars >>

\* the 60 s timer is raced against the transcriber only, not the model load
TranscriptionTimeoutAfterLoad(r) ==
  /\ \E d \in transcriptionTimer[r] : now >= d
  /\ transcriptionTimer' = [transcriptionTimer EXCEPT ![r] = {}]
  /\ IF pc[r] = "inferring"
     THEN TranscribeCatch(r, TimerMessage60,
            [hist[r] EXCEPT !.timeoutBy = "transcription", !.timeoutPhase = pc[r]])
     ELSE /\ Silent
          /\ UNCHANGED << files, pc, progressInterval, hist >>
  /\ UNCHANGED << now, audioPath, videoPath, wavPath, currentProgress,
                  overallTimer, modelLoads, observerVars, serviceVars >>

\* transcribeAudio's 60 s timer fires: timeoutPromise rejects, which settles
\* the race transcribeAudio is waiting in, if it still is
TranscriptionTimeout(r) ==
  /\ \E d \in transcriptionTimer[r] : now >= d
  /\ transcriptionTimer' = [transcriptionTimer EXCEPT ![r] = {}]
  /\ IF pc[r] \in Racing
     THEN TranscribeCatch(r, TimerMessage60,
            [hist[r] EXCEPT !.timeoutBy = "transcription", !.timeoutPhase = pc[r]])
     ELSE /\ Silent
          /\ UNCHANGED << files, pc, progressInterval, hist >>
  /\ UNCHANGED << now, audioPath, videoPath, wavPath, currentProgress,
                  overallTimer, modelLoads, observerVars, serviceVars >>

\* the 90 s timer's rejection is thrown whether or not the race is settled
OverallTimeoutUnsettled(r) ==
  /\ \E d \in overallTimer[r] : now >= d
  /\ overallTimer' = [overallTimer EXCEPT ![r] = {}]
  /\ progressInterval' = [progressInterval EXCEPT ![r] = {}]
  /\ Catch(r, TimerMessage90, files,
           [hist[r] EXCEPT !.timeoutBy = "overall", !.timeoutPhase = pc[r]])
  /\ UNCHANGED << now, audioPath, videoPath, wavPath, currentProgress,
                  transcriptionTimer, modelLoads, observerVars, serviceVars >>

\* processTwitterVideo's 90 s timer fires: its timeoutPromise rejects, which
\* settles the race processTwitterVideo is waiting in, if it still is
OverallTimeout(r) ==
  /\ \E d \in overallTimer[r] : now >= d
  /\ overallTimer' = [overallTimer EXCEPT ![r] = {}]
  /\ IF pc[r] \in Racing
     THEN /\ progressInterval' = [progressInterval EXCEPT ![r] = {}]
          /\ Catch(r, TimerMessage90, files,
                   [hist[r] EXCEPT !.timeoutBy = "overall", !.timeoutPhase = pc[r]])
     ELSE /\ Silent
          /\ UNCHANGED << files, pc, progressInterval, hist >>
  /\ UNCHANGED << now, audioPath, videoPath, wavPath, currentProgress,
                  transcriptionTimer, modelLoads, observerVars, serviceVars >>

\* the call that a timeout left behind, pipeline() or the transcriber,
\* resolves or rejects after the race it was in has settled: the race has
\* taken its outcome from the timer and nothing awaits the call any more
Abandoned(r, outcome) ==
  /\ pc[r] = "failed"
  /\ hist[r].timeoutPhase \in Racing
  /\ hist[r].abandoned = "none"
  /\ hist' = [hist EXCEPT ![r].abandoned = outcome]
  /\ Silent
  /\ UNCHANGED << now, files, pc, audioPath, videoPath, wavPath, currentProgress,
                  progressInterval, transcriptionTimer, overallTimer, modelLoads,
                  observerVars, serviceVars >>

TickerMessage ==
  Msg("Transcription in progress... this may take a minute. Using a smaller model to reduce CPU usage.")

\* the setInterval callback
Tick(r) ==
  /\ \E d \in progressInterval[r] :
       /\ now >= d
       /\ progressInterval' = [progressInterval EXCEPT ![r] = {d + PROGRESS_INTERVAL}]
  /\ IF currentProgress[r] < PROGRESS_CEILING
     THEN \E inc \in 1..MAX_INCREMENT :
            /\ currentProgress' = [currentProgress EXCEPT ![r] = @ + inc]
            /\ Publish(r, << broadcastProgress(4, currentProgress[r] + inc, TickerMessage) >>)
            /\ hist' = [hist EXCEPT ![r] =
                 Published(@, << broadcastProgress(4, currentProgress[r] + inc, TickerMessage) >>)]
     ELSE /\ Silent
          /\ UNCHANGED << currentProgress, hist >>
  /\ UNCHANGED << now, files, pc, audioPath, videoPath, wavPath,
                  transcriptionTimer, overallTimer, modelLoads, observerVars, serviceVars >>

\* ------------------------------------------------------------- the storage
\* the row createTranscript writes for run r: the id is drawn from the
\* serial column, createdAt is `new Date()`
Row(r, url) == [id |-> transcriptCurrentId, run |-> r, twitterUrl |-> url, createdAt |-> now]
\* db.insert(transcripts).values(...).returning(): the table with one more row
Insert(table, r) == Append(table, Row(r, hist[r].url))

\* the route stores whatever processTwitterVideo settled with
StoreUnguarded(r) ==
  /\ pc[r] \in Settled
  /\ \A i \in DOMAIN transcripts : transcripts[i].run # r
  /\ transcripts' = Insert(transcripts, r)
  /\ transcriptCurrentId' = transcriptCurrentId + 1
  /\ hist' = [hist EXCEPT ![r].response =
                 [status |-> 200, message |-> <<>>, transcript |-> transcriptCurrentId]]
  /\ Silent
  /\ UNCHANGED << now, files, pc, audioPath, videoPath, wavPath, currentProgress,
                  progressInterval, transcriptionTimer, overallTimer, modelLoads,
                  observerVars, call, cacheVars >>

\* processTwitterVideo has returned; storage.createTranscript resolves and
\* the route answers 200 with the stored transcript
Store(r) ==
  /\ pc[r] = "done"
  /\ hist[r].response.status = 0
  /\ transcripts' = Insert(transcripts, r)
  /\ transcriptCurrentId' = transcriptCurrentId + 1
  /\ hist' = [hist EXCEPT ![r].response =
                 [status |-> 200, message |-> <<>>, transcript |-> transcriptCurrentId]]
  /\ Silent
  /\ UNCHANGED << now, files, pc, audioPath, videoPath, wavPath, currentProgress,
                  progressInterval, transcriptionTimer, overallTimer, modelLoads,
                  observerVars, call, cacheVars >>

\* storage.createTranscript rejects and the route answers 200 all the same
StoreFailAnswered(r) ==
  /\ pc[r] = "done"
  /\ hist[r].response.status = 0
  /\ hist' = [hist EXCEPT ![r].response =
                 [status |-> 200, message |-> <<>>, transcript |-> 0]]
  /\ Silent
  /\ UNCHANGED << now, files, pc, audioPath, videoPath, wavPath, currentProgress,
                  progressInterval, transcriptionTimer, overallTimer, modelLoads,
                  observerVars, serviceVars >>

\* storage.createTranscript rejects; the route broadcasts the error and
\* answers 500
StoreFailBroadcast(r) ==
  /\ pc[r] = "done"
  /\ hist[r].response.status = 0
  /\ hist' = [hist EXCEPT ![r] =
       [Published(@, CatchPublish(<<"Failed to save transcript to database">>))
          EXCEPT !.response =
            [status |-> 500, message |-> <<"Failed to save transcript to database">>,
             transcript |-> 0]]]
  /\ Publish(r, CatchPublish(<<"Failed to save transcript to database">>))
  /\ UNCHANGED << now, files, pc, audioPath, videoPath, wavPath, currentProgress,
                  progressInterval, transcriptionTimer, overallTimer, modelLoads,
                  observerVars, serviceVars >>

\* storage.createTranscript rejects; the route answers 500
StoreFail(r) ==
  /\ pc[r] = "done"
  /\ hist[r].response.status = 0
  /\ hist' = [hist EXCEPT ![r].response =
                 [status |-> 500, message |-> <<"Failed to save transcript to database">>,
                  transcript |-> 0]]
  /\ Silent
  /\ UNCHANGED << now, files, pc, audioPath, videoPath, wavPath, currentProgress,
                  progressInterval, transcriptionTimer, overallTimer, modelLoads,
                  observerVars, serviceVars >>

\* a transcript that no modelled run produced
NoRun == 0
TranscriptIds == 1..MaxRows
Limits == 0..MaxRows

\* storage.createTranscript(data), as POST /transcribe calls it
CreateTranscript(url) ==
  /\ transcriptCurrentId <= MaxRows
  /\ transcripts' = Append(transcripts, Row(NoRun, url))
  /\ transcriptCurrentId' = transcriptCurrentId + 1
  /\ call' = [fn |-> "createTranscript", table |-> transcripts, id |-> transcriptCurrentId,
              rejected |-> FALSE, status |-> 200]
  /\ Silent
  /\ UNCHANGED << now, runVars, observerVars, cacheVars >>

\* db.delete(transcripts).where(eq(transcripts.id, id)).returning(): the rows
\* that stay and the rows that were deleted
Kept(table, id) == SelectSeq(table, LAMBDA row : row.id # id)
Deleted(table, id) == SelectSeq(table, LAMBDA row : row.id = id)

\* a delete that answers success whether or not a row was deleted
DeleteTranscriptSilent(id) ==
  /\ transcripts' = Kept(transcripts, id)
  /\ call' = [fn |-> "deleteTranscript", table |-> transcripts, id |-> id,
              rejected |-> FALSE, success |-> TRUE, status |-> 200,
              message |-> <<"Transcript deleted successfully">>]
  /\ Silent
  /\ UNCHANGED << now, runVars, observerVars, transcriptCurrentId, cacheVars >>

\* DELETE /transcripts/:id when the database answers: deleteTranscript is
\* true iff a row was deleted, and the route answers 404 when it is false
DeleteTranscript(id) ==
  LET success == Len(Deleted(transcripts, id)) > 0
  IN /\ transcripts' = Kept(transcripts, id)
     /\ call' = [fn |-> "deleteTranscript", table |-> transcripts, id |-> id,
                 rejected |-> FALSE, success |-> success,
                 status |-> IF success THEN 200 ELSE 404,
                 message |-> IF success THEN <<"Transcript deleted successfully">>
                             ELSE <<"Transcript not found">>]
     /\ Silent
     /\ UNCHANGED << now, runVars, observerVars, transcriptCurrentId, cacheVars >>

\* DELETE /transcripts/:id when the database rejects the statement:
\* deleteTranscript catches the error and returns false
DeleteTranscriptFail(id) ==
  /\ call' = [fn |-> "deleteTranscript", table |-> transcripts, id |-> id,
              rejected |-> TRUE, success |-> FALSE, status |-> 404,
              message |-> <<"Transcript not found">>]
  /\ Silent
  /\ UNCHANGED << now, runVars, observerVars, storeVars, cacheVars >>

\* the orders in which the rows of a table can be listed
Permutations(n) == {p \in [1..n -> 1..n] : \A i, j \in 1..n : p[i] = p[j] => i = j}
\* orderBy(createdAt) ascending, then limit(limit)
OldestFirst(table, limit) ==
  { [i \in 1..Min(limit, Len(table)) |-> table[p[i]]] :
      p \in { q \in Permutations(Len(table)) :
                \A i, j \in 1..Len(table) :
                  i < j => table[q[i]].createdAt <= table[q[j]].createdAt } }
\* orderBy(desc(transcripts.createdAt)).limit(limit): rows created at the
\* same millisecond come in any order
Recent(table, limit) ==
  { [i \in 1..Min(limit, Len(table)) |-> table[p[i]]] :
      p \in { q \in Permutations(Len(table)) :
                \A i, j \in 1..Len(table) :
                  i < j => table[q[i]].createdAt >= table[q[j]].createdAt } }

\* GET /transcripts/recent?limit=... when the database answers
GetRecentTranscripts(limit) ==
  /\ \E result \in Recent(transcripts, limit) :
       call' = [fn |-> "getRecentTranscripts", table |-> transcripts, limit |-> limit,
                rejected |-> FALSE, result |-> result, status |-> 200]
  /\ Silent
  /\ UNCHANGED << now, runVars, observerVars, storeVars, cacheVars >>

\* GET /transcripts/recent?limit=... when the database rejects the query:
\* getRecentTranscripts catches the error and returns []
GetRecentTranscriptsFail(limit) ==
  /\ call' = [fn |-> "getRecentTranscripts", table |-> transcripts, limit |-> limit,
              rejected |-> TRUE, result |-> <<>>, status |-> 200]
  /\ Silent
  /\ UNCHANGED << now, runVars, observerVars, storeVars, cacheVars >>

\* ---------------------------------------------------------- the observers
ConnectionMessage(id) ==
  [type |-> "connection", message |-> Msg("Connected to transcription service"),
   clientId |-> id]

\* wss.on('connection'): the handler draws an id, stores the socket under it
\* and sends the acknowledgement
Accept(o, id, messages) ==
  /\ readyState[o] = "CLOSED"
  /\ readyState' = [readyState EXCEPT ![o] = "OPEN"]
  /\ clients' = [clients EXCEPT ![id] = o]
  /\ clientId' = [clientId EXCEPT ![o] = id]
  /\ out' = NoPublish
  /\ sends' = [p \in Observers |-> IF p = o THEN messages ELSE <<>>]
  /\ got' = [got EXCEPT ![o] = Received(NoInbox, messages)]
  /\ UNCHANGED << serviceVars, now, runVars >>

\* the handler also sends the newcomer the event published last
ConnectReplay(o, id) ==
  Accept(o, id, << ConnectionMessage(id) >>
                \o IF \E r \in Runs : hist[r].lastEvent.type # "none"
                   THEN << hist[CHOOSE r \in Runs : hist[r].lastEvent.type # "none"].lastEvent >>
                   ELSE <<>>)
\* the handler sends no acknowledgement
ConnectSilently(o, id) == Accept(o, id, <<>>)
Connect(o, id) == Accept(o, id, << ConnectionMessage(id) >>)

\* the closing handshake of an observer's socket starts
BeginClose(o) ==
  /\ readyState[o] = "OPEN"
  /\ readyState' = [readyState EXCEPT ![o] = "CLOSING"]
  /\ Silent
  /\ UNCHANGED << serviceVars, now, runVars, clients, clientId >>

\* ws.on('close'): the socket is closed and the handler deletes its id
Close(o) ==
  /\ readyState[o] \in {"OPEN", "CLOSING"}
  /\ readyState' = [readyState EXCEPT ![o] = "CLOSED"]
  /\ clients' = [clients EXCEPT ![clientId[o]] = NoClient]
  /\ Silent
  /\ UNCHANGED << serviceVars, now, runVars, clientId >>

\* ------------------------------------------------- the environment of tmp/
\* something other than the run removes a file of tmp/
Removed(path) ==
  /\ path \in files
  /\ files' = files \ {path}
  /\ Silent
  /\ UNCHANGED << now, pc, audioPath, videoPath, wavPath, currentProgress,
                  progressInterval, transcriptionTimer, overallTimer, modelLoads,
                  hist, observerVars, serviceVars >>

\* ------------------------------------------------------- the calls alone
\* the stage errors that reach the catch block of processTwitterVideo, by
\* the category of what went wrong
CategoryErrors ==
  [ InvalidInput |-> { getTwitterVideoInfoError(<<"Invalid Twitter URL format">>) },
    NoCredentials |->
      { getTwitterVideoInfoError(getTweetById([cred |-> [bearer |-> FALSE, key |-> FALSE, secret |-> FALSE],
                                               answer |-> a]).message) : a \in Answers },
    NotFound |-> { getTwitterVideoInfoError(<<"Tweet not found">>) },
    NoVideoFound |-> { getTwitterVideoInfoError(<<"Failed to extract video URL: ", "No video found", " in tweet">>),
                       getTwitterVideoInfoError(<<"No video found", " in tweet">>) },
    RateLimited |-> { getTwitterVideoInfoError(<<"Twitter API ", "rate limit", " exceeded. Please try again later.">>) },
    DownloadFailed |-> { downloadVideoError(f) : f \in AxiosFailures },
    ExtractionFailed |-> { extractAudioError(FfmpegError(f)) : f \in FfmpegFailures },
    TranscriptionTimeout |-> { TranscribeErrorMessage(TimerMessage60) },
    Timeout |-> { TimerMessage90 },
    OutOfMemory |-> { TranscribeErrorMessage(<<"failed to allocate ", "memory">>) },
    Unknown |-> { TranscribeErrorMessage(<<"Could not locate file">>),
                  getTwitterVideoInfoError(<<"Failed to fetch tweet: Request failed with code 401">>) } ]
Categories == DOMAIN CategoryErrors

\* the catch block of processTwitterVideo on an error of each of two categories
Report(c1, e1, c2, e2) ==
  /\ call = NoCall
  /\ call' = [fn |-> "catch", c1 |-> c1, c2 |-> c2, e1 |-> e1, e2 |-> e2,
              thrown1 |-> ThrownMessage(e1), thrown2 |-> ThrownMessage(e2),
              event1 |-> CatchPublish(e1)[1], event2 |-> CatchPublish(e2)[1]]
  /\ Silent
  /\ UNCHANGED << now, runVars, observerVars, storeVars, cacheVars >>

\* the catch block of processTwitterVideo on a thrown value
Caught(error) ==
  /\ call = NoCall
  /\ call' = [fn |-> "caught", error |-> error, category |-> catch(error).category,
              event |-> catch(error).event, thrown |-> catch(error).thrown]
  /\ Silent
  /\ UNCHANGED << now, runVars, observerVars, storeVars, cacheVars >>

\* getTwitterVideoInfo on an accepted url, and the catch block of
\* processTwitterVideo when it rejects
Resolve(url, world) ==
  /\ call = NoCall
  /\ twitterUrlSchema(url)
  /\ LET result == getTwitterVideoInfo(url, world)
     IN call' = [fn |-> "getTwitterVideoInfo", url |-> url, world |-> world,
                 client |-> getClient(world.cred),
                 result |-> result,
                 category |-> IF result.ok THEN "none" ELSE Classify(result.message),
                 thrown |-> IF result.ok THEN <<>> ELSE ThrownMessage(result.message),
                 event |-> IF result.ok THEN NoEvent ELSE CatchPublish(result.message)[1]]
  /\ Silent
  /\ UNCHANGED << now, runVars, observerVars, storeVars, cacheVars >>

\* formatTimestamp on a number of seconds
Format(seconds, format) ==
  /\ call = NoCall
  /\ call' = [fn |-> "formatTimestamp", seconds |-> seconds, format |-> format,
              text |-> formatTimestamp(seconds, format)]
  /\ Silent
  /\ UNCHANGED << now, runVars, observerVars, storeVars, cacheVars >>

\* the transcriber resolves with result: the segments transcribeAudio
\* returns and the duration processTwitterVideo derives from them
Transcribed(result, format) ==
  /\ call = NoCall
  /\ call' = [fn |-> "transcribeAudio", result |-> result, format |-> format,
              segments |-> Segments(result, format),
              duration |-> Duration(Segments(result, format))]
  /\ Silent
  /\ UNCHANGED << now, runVars, observerVars, storeVars, cacheVars >>

\* -------------------------------------------------------- the Twitter caches
\* CACHE_TTL, in milliseconds
CACHE_TTL == [tweets |-> 24 * 60 * 60 * 1000, videoUrls |-> 6 * 60 * 60 * 1000]

\* what client.v2.tweets answers while the caches fill: a post with an mp4
\* variant, a post with a preview only, a post without media
CacheResponses ==
  { [data |-> << [media_keys |-> <<"k1">>] >>,
     media |-> << [media_key |-> "k1", type |-> "video",
                   variants |-> << [content_type |-> "video/mp4", bit_rate |-> 632000,
                                    url |-> <<"variant", 1>>] >>,
                   preview_image_url |-> NoUrl] >>],
    [data |-> << [media_keys |-> <<"k1">>] >>,
     media |-> << [media_key |-> "k1", type |-> "video", variants |-> <<>>,
                   preview_image_url |-> PreviewUrl] >>],
    [data |-> << [media_keys |-> <<>>] >>, media |-> <<>>] }
CacheAnswers == {Err(m) : m \in ApiErrors} \cup {Ok(resp) : resp \in CacheResponses}
\* the module built its app-only client
Credentialed == [bearer |-> TRUE, key |-> FALSE, secret |-> FALSE]

\* the value cache.tweets.set and cache.videoUrls.set store
Item(data, timestamp) == [present |-> TRUE, data |-> data, timestamp |-> timestamp]
\* an entry never expires
FreshForever(item, at, ttl) == item.present
\* cached && now - cached.timestamp < CACHE_TTL
Fresh(item, at, ttl) == item.present /\ at - item.timestamp < ttl

NoResult == [ok |-> FALSE]

\* getTwitterVideoInfo up to its await of getTweetById, and getTweetById up to
\* its return of the cached tweet or its await of client.v2.tweets
VideoInfoCalled(r, url) ==
  LET tweetId == extractTweetId(url)
      cachedUrl == cache.videoUrls[tweetId.value]
      cachedTweet == cache.tweets[tweetId.value]
      urlCached == Fresh(cachedUrl, now, CACHE_TTL.videoUrls)
      tweetCached == Fresh(cachedTweet, now, CACHE_TTL.tweets)
  IN /\ lookup[r].phase # "awaiting"
     /\ lookup' = [lookup EXCEPT ![r] =
          IF ~tweetId.ok
          THEN [phase |-> "threw", url |-> url, startedAt |-> now, requests |-> 0,
                rejected |-> FALSE,
                result |-> Err(getTwitterVideoInfoError(tweetId.message))]
          ELSE [phase |-> "awaiting", url |-> url, tweetId |-> tweetId.value,
                startedAt |-> now,
                urlCached |-> urlCached,
                videoUrl |-> IF urlCached THEN cachedUrl.data ELSE NoUrl,
                cachedTweet |-> IF tweetCached THEN cachedTweet ELSE NoItem,
                requests |-> IF tweetCached THEN 0 ELSE 1,
                rejected |-> FALSE,
                result |-> NoResult]]
     /\ Silent
     /\ UNCHANGED << now, runVars, observerVars, storeVars, call, cache >>

\* getTwitterVideoInfo from the return of getTweetById on, over the caches c:
\* the caches and the call afterwards
VideoInfoReturn(l, tweetData, c) ==
  LET videoUrl == extractVideoUrl(tweetData)
      done(result) == [l EXCEPT !.phase = IF result.ok THEN "returned" ELSE "threw",
                                !.result = result]
      info(url) == Ok([tweetId |-> l.tweetId, videoUrl |-> url])
  IN IF l.urlCached THEN [cache |-> c, lookup |-> done(info(l.videoUrl))]
     ELSE IF ~videoUrl.ok
     THEN [cache |-> c, lookup |-> done(Err(getTwitterVideoInfoError(videoUrl.message)))]
     ELSE IF videoUrl.value = NoUrl
     THEN [cache |-> c,
           lookup |-> done(Err(getTwitterVideoInfoError(<<"No video found", " in tweet">>)))]
     ELSE [cache |-> [c EXCEPT !.videoUrls[l.tweetId] = Item(videoUrl.value, l.startedAt)],
           lookup |-> done(info(videoUrl.value))]

\* getTweetById returned cachedTweet.data
VideoInfoCached(r) ==
  LET after == VideoInfoReturn(lookup[r], lookup[r].cachedTweet.data, cache)
  IN /\ lookup[r].phase = "awaiting"
     /\ lookup[r].requests = 0
     /\ cache' = after.cache
     /\ lookup' = [lookup EXCEPT ![r] = after.lookup]
     /\ Silent
     /\ UNCHANGED << now, runVars, observerVars, storeVars, call >>

\* client.v2.tweets settled: getTweetById stores what it resolved with under
\* the time of its own start, or throws
VideoInfoAnswered(r, answer) ==
  LET tweet == getTweetById([cred |-> Credentialed, answer |-> answer])
      stored == [cache EXCEPT !.tweets[lookup[r].tweetId] =
                   Item(tweet.value, lookup[r].startedAt)]
      after == VideoInfoReturn(lookup[r], tweet.value, stored)
  IN /\ lookup[r].phase = "awaiting"
     /\ lookup[r].requests = 1
     /\ IF tweet.ok
        THEN /\ cache' = after.cache
             /\ lookup' = [lookup EXCEPT ![r] = after.lookup]
        ELSE /\ cache' = cache
             /\ lookup' = [lookup EXCEPT ![r].phase = "threw", ![r].rejected = TRUE,
                             ![r].result = Err(getTwitterVideoInfoError(tweet.message))]
     /\ Silent
     /\ UNCHANGED << now, runVars, observerVars, storeVars, call >>

\* hours pass between the calls
AdvanceCache ==
  /\ now + CacheQuantum <= CacheMaxTime
  /\ now' = now + CacheQuantum
  /\ Silent
  /\ UNCHANGED << runVars, observerVars, serviceVars >>

\* ---------------------------------------------------------------- the clock
Deadlines ==
  UNION {progressInterval[r] \cup transcriptionTimer[r] \cup overallTimer[r] : r \in Runs}
Due == \E d \in Deadlines : d <= now
Earliest(S) == CHOOSE d \in S : \A e \in S : d <= e

\* time passes, up to the next timer's expiry: an expired timer fires before
\* any later one does
Advance ==
  /\ ~Due
  /\ (\E r \in Runs : pc[r] \in Awaiting) \/ Deadlines # {}
  /\ IF Deadlines = {}
     THEN /\ now + Quantum <= MaxTime
          /\ now' = now + Quantum
     ELSE now' = Min(now + Quantum, Earliest(Deadlines))
  /\ Silent
  /\ UNCHANGED << runVars, observerVars, serviceVars >>

\* a millisecond passes; no timer is near its expiry
AdvanceConc ==
  /\ now < ConcMaxTime
  /\ \A d \in Deadlines : now + 1 < d
  /\ now' = now + 1
  /\ Silent
  /\ UNCHANGED << runVars, observerVars, serviceVars >>

\* time passes until the ticker's next expiry
AdvanceObs ==
  /\ ~Due
  /\ Deadlines # {}
  /\ Earliest(Deadlines) <= ObsMaxTime
  /\ now' = Earliest(Deadlines)
  /\ Silent
  /\ UNCHANGED << runVars, observerVars, serviceVars >>

\* ------------------------------------------------------- the specifications
\* one run, with its timers
Next ==
  \/ \E r \in MainRuns :
       \/ \E outcome \in {"resolved", "rejected"} : Abandoned(r, outcome)
       \/ \E url \in Urls : Reject(r, url)
       \/ \E url \in MainUrls : Start(r, url)
       \/ MetadataOk(r)
       \/ \E f \in TwitterFailures : MetadataFail(r, f)
       \/ DownloadOk(r)
       \/ \E f \in AxiosFailures : DownloadFail(r, f)
       \/ ExtractOk(r)
       \/ \E f \in FfmpegFailures, partial \in BOOLEAN : ExtractFail(r, f, partial)
       \/ ModelLoaded(r)
       \/ \E f \in ModelFailures : ModelFail(r, f)
       \/ \E f \in ModelFailures : InferFail(r, f)
       \/ InferOk(r)
       \/ Store(r)
       \/ StoreFail(r)
       \/ TranscriptionTimeout(r)
       \/ OverallTimeout(r)
       \/ Tick(r)
  \/ Advance

Spec == Init /\ [][Next]_vars

\* the same, when the clock goes on and every expired timer is run
Fairness ==
  /\ WF_vars(Advance)
  /\ \A r \in MainRuns :
       /\ WF_vars(Tick(r))
       /\ WF_vars(TranscriptionTimeout(r))
       /\ WF_vars(OverallTimeout(r))
SpecLive == Init /\ [][Next]_vars /\ Fairness

\* the runs in flight together, within a few milliseconds
NextConc ==
  \/ \E r \in Runs :
       \/ \E url \in MainUrls : Start(r, url)
       \/ MetadataOk(r)
       \/ \E f \in TwitterFailures : MetadataFail(r, f)
       \/ DownloadOk(r)
       \/ \E f \in AxiosFailures : DownloadFail(r, f)
       \/ ExtractOk(r)
       \/ \E f \in FfmpegFailures, partial \in BOOLEAN : ExtractFail(r, f, partial)
       \/ ModelLoaded(r)
       \/ \E f \in ModelFailures : ModelFail(r, f)
       \/ \E f \in ModelFailures : InferFail(r, f)
       \/ InferOk(r)
  \/ AdvanceConc

SpecConc == Init /\ [][NextConc]_vars

\* one run, up to its first ticks, and the observers coming and going
NextObs ==
  \/ \E r \in MainRuns :
       \/ \E url \in Urls : Reject(r, url)
       \/ \E url \in Urls : Start(r, url)
       \/ MetadataOk(r)
       \/ \E f \in TwitterFailures : MetadataFail(r, f)
       \/ DownloadOk(r)
       \/ \E f \in AxiosFailures : DownloadFail(r, f)
       \/ ExtractOk(r)
       \/ \E f \in FfmpegFailures, partial \in BOOLEAN : ExtractFail(r, f, partial)
       \/ ModelLoaded(r)
       \/ \E f \in ModelFailures : ModelFail(r, f)
       \/ \E f \in ModelFailures : InferFail(r, f)
       \/ InferOk(r)
       \/ Store(r)
       \/ StoreFail(r)
       \/ Tick(r)
  \/ \E o \in Observers :
       \/ \E id \in Ids : Connect(o, id)
       \/ BeginClose(o)
       \/ Close(o)
  \/ AdvanceObs

SpecObs == Init /\ [][NextObs]_vars

\* one run, up to its first ticks, and files of tmp/ disappearing under it
NextFs ==
  \/ \E r \in MainRuns :
       \/ \E url \in MainUrls : Start(r, url)
       \/ MetadataOk(r)
       \/ \E f \in TwitterFailures : MetadataFail(r, f)
       \/ DownloadOk(r)
       \/ \E f \in AxiosFailures : DownloadFail(r, f)
       \/ ExtractOk(r)
       \/ \E f \in FfmpegFailures, partial \in BOOLEAN : ExtractFail(r, f, partial)
       \/ ModelLoaded(r)
       \/ \E f \in ModelFailures : ModelFail(r, f)
       \/ \E f \in ModelFailures : InferFail(r, f)
       \/ InferOk(r)
       \/ Store(r)
       \/ StoreFail(r)
       \/ Tick(r)
  \/ \E path \in files : Removed(path)
  \/ AdvanceObs

SpecFs == Init /\ [][NextFs]_vars

\* the service calls alone, on every input
NextFn ==
  \/ /\ call = NoCall
     /\ \E c1 \in Categories, c2 \in Categories :
          \E e1 \in CategoryErrors[c1], e2 \in CategoryErrors[c2] : Report(c1, e1, c2, e2)
  \/ /\ call = NoCall
     /\ \E error \in ThrownValues : Caught(error)
  \/ /\ call = NoCall
     /\ \E url \in Urls, world \in Worlds : Resolve(url, world)
  \/ /\ call = NoCall
     /\ \E seconds \in Seconds, format \in Formats : Format(seconds, format)
  \/ /\ call = NoCall
     /\ \E result \in TranscriberResults, format \in Formats : Transcribed(result, format)

SpecFn == Init /\ [][NextFn]_vars

\* the transcripts table: creations, deletions and listings, a few
\* milliseconds apart
NextStore ==
  \/ \E url \in MainUrls : CreateTranscript(url)
  \/ \E id \in TranscriptIds : DeleteTranscript(id)
  \/ \E id \in TranscriptIds : DeleteTranscriptFail(id)
  \/ \E limit \in Limits : GetRecentTranscripts(limit)
  \/ \E limit \in Limits : GetRecentTranscriptsFail(limit)
  \/ AdvanceConc

SpecStore == Init /\ [][NextStore]_vars

\* the caches of twitterApi: calls of getTwitterVideoInfo, hours apart
NextCache ==
  \/ \E r \in MainRuns, url \in CacheUrls : VideoInfoCalled(r, url)
  \/ \E r \in MainRuns : VideoInfoCached(r)
  \/ \E r \in MainRuns, answer \in CacheAnswers : VideoInfoAnswered(r, answer)
  \/ AdvanceCache

SpecCache == Init /\ [][NextCache]_vars

\* ================================================================ properties
Registered(o) == \E i \in Ids : clients[i] = o
Thrown(r) == hist[r].thrown
Overalls(events) == [i \in DOMAIN events |-> events[i].overallProgress]
NonDecreasing(seq) == \A i \in DOMAIN seq : i > 1 => seq[i - 1] <= seq[i]
ProgressOnly(events) == SelectSeq(events, LAMBDA e : e.type = "progress")
StepsOf(events) == [i \in DOMAIN events |-> events[i].step]

\* C1: once a run has settled, done or failed, the audio file its extraction
\* stage created no longer exists.
C1_NoLeakedAudio ==
  \A r \in Runs :
    (pc[r] \in Settled /\ hist[r].audioCreated) => wavPath[r] \notin files

\* C2: a run fails exactly when one of its stages failed or a timer decided
\* it; a failed run has published exactly one Error event, with
\* overallProgress 100, as its last event and has thrown exactly one error;
\* any other run has published no Error event and thrown nothing.
C2_OneErrorPerFailure ==
  \A r \in Runs :
    /\ pc[r] = "failed" <=>
         ((\E s \in Stages : hist[r].outcome[s] = "failed") \/ hist[r].timeoutBy # "none")
    /\ pc[r] = "failed" =>
         /\ hist[r].errorEvents = 1
         /\ hist[r].lastEvent.type = "error"
         /\ hist[r].lastEvent.overallProgress = 100
         /\ Len(Thrown(r)) = 1
    /\ pc[r] # "failed" => hist[r].errorEvents = 0 /\ Thrown(r) = <<>>

C2_Witness ==
  \E r \in Runs :
    /\ pc[r] = "failed"
    /\ hist[r].outcome["transcribe"] = "failed"
    /\ hist[r].invoked["transcribe"] = 1
    /\ hist[r].errorEvents = 1

\* C3: in every step that publishes, the overallProgress of the run's last
\* event so far and of the events the step publishes, in order, never drops.
C3_OverallProgressMonotone ==
  [][out'.run \in Runs =>
       NonDecreasing(<< hist[out'.run].lastEvent.overallProgress >>
                       \o Overalls(out'.events))]_vars

C3_Witness ==
  \E r \in Runs :
    /\ pc[r] = "failed"
    /\ currentProgress[r] > PROGRESS_CEILING
    /\ hist[r].lastEvent.type = "error"
    /\ hist[r].completed = {1, 2, 3}

C5_TimerFailsTranscribe ==
  \A r \in Runs :
    hist[r].timeoutBy = "transcription" =>
      /\ hist[r].outcome["transcribe"] = "failed"
      /\ hist[r].stageError = <<"Transcription ", "timed out",
                                ". The video may be too long or the server is under high load.">>
      /\ pc[r] = "failed"
      /\ Len(Thrown(r)) = 1 /\ Includes(Thrown(r)[1], "timed out")
      /\ hist[r].lastEvent.type = "error"
      /\ Includes(hist[r].lastEvent.message, "timed out")
      /\ audioPath[r] # NoPath /\ audioPath[r] \notin files

C5_Witness ==
  \E r \in Runs :
    /\ hist[r].timeoutBy = "transcription"
    /\ hist[r].timeoutPhase = "loading"
    /\ hist[r].settledAt = hist[r].transcribeAt + TRANSCRIPTION_TIMEOUT
    /\ audioPath[r] \notin files

C7_DistinctTempPaths ==
  \A r1, r2 \in Runs :
    r1 # r2 =>
      /\ (pc[r1] = "extract" /\ pc[r2] = "extract") => videoPath[r1] # videoPath[r2]
      /\ (pc[r1] \in {"extract", "loading", "inferring"}
          /\ pc[r2] \in {"extract", "loading", "inferring"}) => wavPath[r1] # wavPath[r2]

\* C8: in every step that publishes, the step numbers of the run's last
\* Progress event so far and of the Progress events the step publishes, in
\* order, never drop, and a completion event of step N > 1 comes only after
\* the completion event of step N - 1.
C8_StageOrder ==
  [][out'.run \in Runs =>
       LET before == hist[out'.run]
           events == ProgressOnly(out'.events)
       IN /\ NonDecreasing(<< StepOf(before.lastEvent) >> \o StepsOf(events))
          /\ \A i \in DOMAIN events :
               (events[i].progress = 100 /\ events[i].step > 1) =>
                 \/ events[i].step - 1 \in before.completed
                 \/ \E j \in 1..(i - 1) :
                      events[j].progress = 100 /\ events[j].step = events[i].step - 1]_vars

C8_Witness ==
  \E r \in Runs :
    /\ pc[r] = "done"
    /\ hist[r].completed = {1, 2, 3, 4}
    /\ currentProgress[r] > 10

\* C9: every stage operation is invoked at most once, a stage is invoked
\* only after the stage before it has succeeded, and after a failed stage
\* no later stage is invoked.
Before(s) ==
  CASE s = "download" -> "metadata"
    [] s = "extract" -> "download"
    [] s = "transcribe" -> "extract"
    [] OTHER -> "none"
C9_StagesOnceInOrder ==
  \A r \in Runs : \A s \in Stages :
    /\ hist[r].invoked[s] <= 1
    /\ hist[r].invoked[s] = 0 <=> hist[r].outcome[s] = "none"
    /\ (s # "metadata" /\ hist[r].invoked[s] > 0) => hist[r].outcome[Before(s)] = "ok"
    /\ (s # "metadata" /\ hist[r].outcome[Before(s)] \in {"none", "running", "failed"}) =>
         hist[r].invoked[s] = 0

C9_Witness ==
  \E r \in Runs :
    /\ pc[r] = "failed"
    /\ hist[r].outcome["download"] = "failed"
    /\ hist[r].invoked = [s \in Stages |-> IF s \in {"metadata", "download"} THEN 1 ELSE 0]

\* C10: a step that publishes sends the published events, once each and in
\* order, to every observer the registry holds whose socket is OPEN, and
\* sends nothing to any other observer.
C10_FanoutToOpenObservers ==
  out.run \in Runs =>
    \A o \in Observers :
      sends[o] = IF Registered(o) /\ readyState[o] = "OPEN" THEN out.events ELSE <<>>

C10_Witness ==
  /\ out.run \in Runs
  /\ out.events # <<>>
  /\ \E o, p \in Observers :
       /\ Registered(o) /\ readyState[o] = "OPEN" /\ sends[o] = out.events
       /\ Registered(p) /\ readyState[p] = "CLOSING" /\ sends[p] = <<>>

\* C11: an observer is sent a Progress or Error event only in the step that
\* publishes it, and only while the registry holds the observer: a step that
\* publishes nothing (a connection among them) sends no event to anybody,
\* and an observer that is not registered, or whose socket is closed, is
\* sent none.
C11_NoReplay ==
  \A o \in Observers :
    /\ (\E i \in DOMAIN sends[o] : sends[o][i].type # "connection") =>
         /\ out.run \in Runs
         /\ sends[o] = out.events
         /\ Registered(o)
    /\ readyState[o] = "CLOSED" => sends[o] = <<>>

\* an observer joins after the run has completed a step and is sent the
\* acknowledgement alone, while the other has left and is sent nothing
C11_Witness ==
  \E o, p \in Observers :
    /\ o # p
    /\ hist[1].completed # {}
    /\ sends[o] = << ConnectionMessage(clientId[o]) >>
    /\ ~got[o].events
    /\ readyState[p] = "CLOSED" /\ got[p].events

\* C12: an observer whose socket is connected has been sent exactly one
\* acknowledgement, of type connection and carrying the id the handler
\* gave it, and that acknowledgement was the first message it was sent.
C12_OneAckFirst ==
  \A o \in Observers :
    readyState[o] # "CLOSED" =>
      /\ got[o].acks = 1
      /\ got[o].first = "connection"
      /\ got[o].ackId = clientId[o]
      /\ \A i \in DOMAIN sends[o] :
           sends[o][i].type = "connection" => sends[o] = << ConnectionMessage(clientId[o]) >>

\* an observer has been sent its acknowledgement and then events
C12_Witness ==
  \E o \in Observers :
    /\ readyState[o] = "OPEN"
    /\ got[o].first = "connection" /\ got[o].acks = 1 /\ got[o].events
    /\ sends[o] # <<>> /\ sends[o] = out.events

\* the phrases by which a user-facing message names its category
Phrases ==
  {"rate limit", "No video found", "Tweet not found", "credentials", "timed out", "memory"}
Names(message) == {p \in Phrases : Includes(message, p)}
LastThrown(r) == Thrown(r)[Len(Thrown(r))]

\* C13 (as stated): the catch block gives errors of two different categories
\* of the taxonomy different messages, in the error it throws and in the
\* Error event it publishes.
C13_DistinctPerCategory ==
  (call.fn = "catch" /\ call.c1 # call.c2) =>
    /\ call.thrown1 # call.thrown2
    /\ call.event1.message # call.event2.message

\* C13: two errors that the catch block classifies differently get different
\* messages, thrown and published; an error of the 60 s limit and one of the
\* 90 s limit are classified alike and get the same messages; a download or
\* extraction failure with none of the phrases looked for is thrown as it
\* came and published behind "Error: ".
C13_DistinctPerClassification ==
  call.fn = "catch" =>
    /\ Classify(call.e1) # Classify(call.e2) =>
         /\ call.thrown1 # call.thrown2
         /\ call.event1.message # call.event2.message
    /\ (call.c1 = "TranscriptionTimeout" /\ call.c2 = "Timeout") =>
         /\ call.thrown1 = call.thrown2
         /\ call.event1.message = call.event2.message
    /\ (call.c1 \in {"DownloadFailed", "ExtractionFailed"} /\ Names(call.e1) = {}
           /\ ~Includes(call.e1, "429")) =>
         /\ call.thrown1 = call.e1
         /\ call.event1.message = <<"Error: ">> \o call.e1

\* the two limits, with one text, and an out-of-memory error with another
C13_Witness ==
  /\ call.fn = "catch"
  /\ call.c1 = "TranscriptionTimeout" /\ call.c2 = "Timeout"
  /\ call.thrown1 = call.thrown2
  /\ call.event1.message = call.event2.message
  /\ \E e \in CategoryErrors["OutOfMemory"] :
       ThrownMessage(e) # call.thrown1 /\ BroadcastMessage(e) # call.event1.message

\* C14 (as stated): the Error event of a failed run carries the message of
\* the error thrown to the caller.
C14_EventMirrorsThrown ==
  \A r \in Runs :
    pc[r] = "failed" => hist[r].lastEvent.message = LastThrown(r)

\* C14: the Error event of a failed run and the error thrown to the caller
\* name the same category; their texts are the same only for "No video
\* found" and "Tweet not found"; when they name no category the event's
\* text is the thrown text behind "Error: ".
C14_SameCategoryOtherText ==
  \A r \in Runs :
    pc[r] = "failed" =>
      /\ hist[r].lastEvent.type = "error"
      /\ Names(hist[r].lastEvent.message) = Names(LastThrown(r))
      /\ Names(LastThrown(r)) = {} =>
           hist[r].lastEvent.message = <<"Error: ">> \o LastThrown(r)
      /\ hist[r].lastEvent.message = LastThrown(r) <=>
           Names(LastThrown(r)) \cap {"No video found", "Tweet not found"} # {}

\* a rate-limited run: the event says "later", the thrown error "in a few minutes"
C14_Witness ==
  \E r \in Runs :
    /\ pc[r] = "failed"
    /\ Names(LastThrown(r)) = {"rate limit"}
    /\ Names(hist[r].lastEvent.message) = {"rate limit"}
    /\ hist[r].lastEvent.message # LastThrown(r)

\* C15: no run fails with the error of an unlink call as its stage error.
C15_DeletionNeverEscalated ==
  \A r \in Runs : ~Includes(hist[r].stageError, "unlink")

\* C16: every row of the transcripts table belongs to a run that has
\* returned with all four stages successful and all four steps completed;
\* a failed run has no row, and its response is a 500 with a message and no
\* transcript.
C16_StoredOnlyOnSuccess ==
  /\ \A i \in DOMAIN transcripts :
       /\ pc[transcripts[i].run] = "done"
       /\ \A st \in Stages : hist[transcripts[i].run].outcome[st] = "ok"
       /\ hist[transcripts[i].run].completed = {1, 2, 3, 4}
       /\ hist[transcripts[i].run].response.transcript = transcripts[i].id
  /\ \A r \in Runs :
       pc[r] = "failed" =>
         /\ \A i \in DOMAIN transcripts : transcripts[i].run # r
         /\ hist[r].response.status = 500
         /\ hist[r].response.transcript = 0
         /\ hist[r].response.message = LastThrown(r)
  /\ \A r \in Runs :
       hist[r].response.status = 200 =>
         \E i \in DOMAIN transcripts :
           transcripts[i].run = r /\ transcripts[i].id = hist[r].response.transcript

\* a successful run has been stored and answered
C16_Witness ==
  \E r \in Runs :
    /\ pc[r] = "done"
    /\ hist[r].response.status = 200
    /\ \E i \in DOMAIN transcripts : transcripts[i].run = r

C18_NoDataIsNotFound ==
  ( /\ call.fn = "getTwitterVideoInfo"
    /\ getClient(call.world.cred).ok
    /\ call.world.answer.ok
    /\ call.world.answer.value.data = <<>> ) =>
    /\ ~call.result.ok
    /\ call.category = "NotFound"
    /\ Includes(call.thrown, "Tweet not found")
    /\ Includes(call.event.message, "Tweet not found")

\* C19: a run whose download failed throws, and publishes, the download
\* failure, and neither the rate-limit nor the timeout message.
C19_DownloadFailureIsDownloadFailed ==
  \A r \in Runs :
    hist[r].outcome["download"] = "failed" =>
      /\ Includes(LastThrown(r), "Failed to download video: ")
      /\ Includes(hist[r].lastEvent.message, "Failed to download video: ")
      /\ Names(LastThrown(r)) \cap {"rate limit", "timed out"} = {}
      /\ Names(hist[r].lastEvent.message) \cap {"rate limit", "timed out"} = {}

\* the MP4 variants of a list, and the place of the first of those with the
\* highest bit rate
Mp4(variants) == {i \in DOMAIN variants : variants[i].content_type = "video/mp4"}
Best(variants) ==
  CHOOSE i \in Mp4(variants) :
    /\ \A j \in Mp4(variants) : variants[j].bit_rate <= variants[i].bit_rate
    /\ \A j \in Mp4(variants) : variants[j].bit_rate = variants[i].bit_rate => i <= j
VideoOf(response) ==
  IF response.data # <<>> /\ response.data[1].media_keys # <<>> /\ response.media # <<>>
     /\ response.media[1].type = "video"
  THEN response.media[1].variants ELSE <<>>

\* C20: when the post's video attachment has an MP4 variant that carries a
\* bit rate, getTwitterVideoInfo resolves with the url of the MP4 variant of
\* the highest bit rate, the first in the list among those that share it.
C20_HighestBitrateMp4 ==
  ( /\ call.fn = "getTwitterVideoInfo"
    /\ getClient(call.world.cred).ok
    /\ call.world.answer.ok
    /\ \E i \in Mp4(VideoOf(call.world.answer.value)) :
         VideoOf(call.world.answer.value)[i].bit_rate > 0 ) =>
    /\ call.result.ok
    /\ call.result.value.videoUrl =
         VideoOf(call.world.answer.value)[Best(VideoOf(call.world.answer.value))].url

\* a lower MP4 variant first, then two that share the highest bit rate: the
\* second of the list is chosen
C20_Witness ==
  /\ call.fn = "getTwitterVideoInfo"
  /\ call.result.ok
  /\ call.world.answer.ok
  /\ Len(VideoOf(call.world.answer.value)) = 3
  /\ Mp4(VideoOf(call.world.answer.value)) = {1, 2, 3}
  /\ VideoOf(call.world.answer.value)[1].bit_rate = 632000
  /\ VideoOf(call.world.answer.value)[2].bit_rate = 2176000
  /\ VideoOf(call.world.answer.value)[3].bit_rate = 2176000
  /\ call.result.value.videoUrl = VideoOf(call.world.answer.value)[2].url

\* C21: the client is the app-only (bearer token) client whenever the bearer
\* token is set, the consumer (key and secret) client when it is not and key
\* and secret are, and the call fails with the no-credentials error exactly
\* when neither is configured; the run is then classified NoCredentials.
C21_ClientSelection ==
  call.fn = "getTwitterVideoInfo" =>
    /\ call.world.cred.bearer => call.client = Ok("appOnlyClient")
    /\ (~call.world.cred.bearer /\ call.world.cred.key /\ call.world.cred.secret) =>
         call.client = Ok("consumerClient")
    /\ ~call.client.ok <=>
         (~call.world.cred.bearer /\ ~(call.world.cred.key /\ call.world.cred.secret))
    /\ ~call.client.ok =>
         /\ Includes(call.client.message, "No valid Twitter API credentials")
         /\ ~call.result.ok
         /\ call.category = "NoCredentials"
         /\ Includes(call.thrown, "credentials")
         /\ Includes(call.event.message, "credentials")
    /\ call.category = "NoCredentials" => ~call.client.ok

\* all three variables are set and the app-only client is used
C21_Witness ==
  /\ call.fn = "getTwitterVideoInfo"
  /\ call.world.cred = [bearer |-> TRUE, key |-> TRUE, secret |-> TRUE]
  /\ call.client = Ok("appOnlyClient")
  /\ call.result.ok

\* the number a run of digit characters spells, and the places of a character
RECURSIVE Value(_)
Value(text) ==
  IF text = <<>> THEN 0
  ELSE 10 * Value(SubSeq(text, 1, Len(text) - 1))
       + (CHOOSE d \in 0..9 : Digit(d) = text[Len(text)])
Places(text, char) == {i \in DOMAIN text : text[i] = char}
AllDigits(text) == \A i \in DOMAIN text : \E d \in 0..9 : text[i] = Digit(d)

\* C22 (as stated): the duration of the transcript is the timestamp of the
\* last segment, and "0:00" when there are no segments.
C22_DurationIsLastTimestamp ==
  call.fn = "transcribeAudio" =>
    call.duration = IF call.segments = <<>> THEN << "0", ":", "0", "0" >>
                    ELSE call.segments[Len(call.segments)].timestamp

\* C22: the duration of the transcript is the timestamp of the last segment
\* when that timestamp is not empty, and "0:00" when there are no segments
\* or the last segment's timestamp is empty.
C22_DurationIsLastNonEmptyTimestamp ==
  call.fn = "transcribeAudio" =>
    call.duration =
      IF call.segments = <<>> \/ call.segments[Len(call.segments)].timestamp = <<>>
      THEN << "0", ":", "0", "0" >>
      ELSE call.segments[Len(call.segments)].timestamp

\* two segments with different timestamps: the duration is the second's
C22_Witness ==
  /\ call.fn = "transcribeAudio"
  /\ Len(call.segments) = 2
  /\ call.segments[1].timestamp # call.segments[2].timestamp
  /\ call.segments[2].timestamp # <<>>
  /\ call.duration = call.segments[2].timestamp

\* C23: in the seconds format the text is the digits of floor(x / 60), one
\* colon and two digits that spell floor(x) mod 60; there is no second
\* colon, whatever the number of minutes.
C23_SecondsFormat ==
  (call.fn = "formatTimestamp" /\ call.format = "seconds") =>
    \E k \in DOMAIN call.text :
      /\ Places(call.text, ":") = {k}
      /\ k > 1 /\ Len(call.text) = k + 2
      /\ AllDigits(SubSeq(call.text, 1, k - 1)) /\ AllDigits(SubSeq(call.text, k + 1, k + 2))
      /\ (k > 2 => call.text[1] # "0")
      /\ Value(SubSeq(call.text, 1, k - 1)) = call.seconds.whole \div 60
      /\ Value(SubSeq(call.text, k + 1, k + 2)) = call.seconds.whole % 60

\* 3660 seconds give "61:00"
C23_Witness ==
  /\ call.fn = "formatTimestamp" /\ call.format = "seconds"
  /\ call.seconds.whole = 3660
  /\ call.text = << "6", "1", ":", "0", "0" >>

\* C24: in the detailed format the text is hh:mm:ss.cc, two digits each, and
\* the four fields spell the hours, minutes, seconds and hundredths the
\* number was made of.
C24_DetailedRoundTrip ==
  (call.fn = "formatTimestamp" /\ call.format = "detailed") =>
    /\ Len(call.text) = 11
    /\ call.text[3] = ":" /\ call.text[6] = ":" /\ call.text[9] = "."
    /\ Value(SubSeq(call.text, 1, 2)) = call.seconds.whole \div 3600
    /\ Value(SubSeq(call.text, 4, 5)) = (call.seconds.whole \div 60) % 60
    /\ Value(SubSeq(call.text, 7, 8)) = call.seconds.whole % 60
    /\ Value(SubSeq(call.text, 10, 11)) = call.seconds.hundredths

\* C25: in the none format the text is empty, and every segment of a
\* transcription made with the none format has an empty timestamp.
C25_NoneIsEmpty ==
  /\ (call.fn = "formatTimestamp" /\ call.format = "none") => call.text = <<>>
  /\ (call.fn = "transcribeAudio" /\ call.format = "none") =>
       \A i \in DOMAIN call.segments : call.segments[i].timestamp = <<>>

\* two chunks that start at different times, both with empty timestamps
C25_Witness ==
  /\ call.fn = "transcribeAudio" /\ call.format = "none"
  /\ call.result.isArray /\ Len(call.segments) = 2
  /\ call.result.chunks[1] # call.result.chunks[2]
  /\ call.segments[1].timestamp = <<>> /\ call.segments[2].timestamp = <<>>

\* the ids of a sequence of rows
IdsOf(rows) == {rows[i].id : i \in DOMAIN rows}

\* C26 (as stated): deleting an id that is not in the store answers false
\* and 404 and leaves the store as it was; deleting an id that is in the
\* store answers success and removes that row and no other.
C26_DeleteReportsPresence ==
  call.fn = "deleteTranscript" =>
    IF call.id \in IdsOf(call.table)
    THEN /\ call.success /\ call.status = 200
         /\ transcripts = Kept(call.table, call.id)
         /\ IdsOf(transcripts) = IdsOf(call.table) \ {call.id}
         /\ Len(transcripts) = Len(call.table) - 1
    ELSE /\ ~call.success /\ call.status = 404
         /\ call.message = <<"Transcript not found">>
         /\ transcripts = call.table

\* C26: the same whenever the database carries the deletion out; when the
\* database rejects it, the answer is false and 404 and the store is left
\* as it was, also for an id that is in the store.
C26_DeleteReportsPresenceOrFailure ==
  call.fn = "deleteTranscript" =>
    IF call.id \in IdsOf(call.table) /\ ~call.rejected
    THEN /\ call.success /\ call.status = 200
         /\ transcripts = Kept(call.table, call.id)
         /\ IdsOf(transcripts) = IdsOf(call.table) \ {call.id}
         /\ Len(transcripts) = Len(call.table) - 1
    ELSE /\ ~call.success /\ call.status = 404
         /\ call.message = <<"Transcript not found">>
         /\ transcripts = call.table

\* an id deleted before is deleted again, from a store that holds others
C26_Witness ==
  /\ call.fn = "deleteTranscript" /\ ~call.rejected
  /\ call.id < transcriptCurrentId
  /\ call.id \notin IdsOf(call.table)
  /\ call.table # <<>>
  /\ call.status = 404 /\ transcripts = call.table

\* what a listing of the table must look like
NewestFirst(rows) ==
  \A i, j \in DOMAIN rows : i < j => rows[i].createdAt >= rows[j].createdAt
Listed(table, limit, result) ==
  /\ Len(result) = Min(limit, Len(table))
  /\ NewestFirst(result)
  /\ \A i, j \in DOMAIN result : i # j => result[i].id # result[j].id
  /\ \A i \in DOMAIN result : \E k \in DOMAIN table : table[k] = result[i]
  /\ \A k \in DOMAIN table :
       table[k].id \notin IdsOf(result) =>
         \A i \in DOMAIN result : result[i].createdAt >= table[k].createdAt

\* C27 (as stated): a listing holds min(limit, number stored) of the stored
\* rows, newest first, none of them deleted.
C27_RecentNewestFirst ==
  call.fn = "getRecentTranscripts" =>
    /\ call.table = transcripts
    /\ Listed(transcripts, call.limit, call.result)

\* C27: the same whenever the database answers the query; when it rejects
\* the query the listing is empty.
C27_RecentNewestFirstOrEmpty ==
  call.fn = "getRecentTranscripts" =>
    /\ call.table = transcripts
    /\ call.status = 200
    /\ IF call.rejected THEN call.result = <<>>
       ELSE Listed(transcripts, call.limit, call.result)

\* two of three rows are listed after a deletion: created at different
\* times, the later one first, the older row and the deleted one left out
C27_Witness ==
  /\ call.fn = "getRecentTranscripts" /\ ~call.rejected
  /\ Len(transcripts) = 2 /\ transcriptCurrentId = 4
  /\ call.limit = 1 /\ Len(call.result) = 1
  /\ \E k \in DOMAIN transcripts : transcripts[k].createdAt < call.result[1].createdAt

\* C28: transcribeAudio never ends in the error of its own unlink call:
\* when the audio file is gone at its cleanup, on the success path or on the
\* failure path, the outcome is what it was without the cleanup.
C28_CleanupIdempotent ==
  \A r \in Runs :
    hist[r].outcome["transcribe"] = "failed" =>
      hist[r].stageError # TranscribeErrorMessage(Enoent("unlink"))

\* C29: once extractAudioFromVideo has settled, with the audio or with an
\* ffmpeg error, the video file it wrote is gone; while ffmpeg runs, the
\* file is there.
C29_VideoRemovedAfterExtract ==
  \A r \in MainRuns :
    /\ hist[r].outcome["extract"] \in {"ok", "failed"} => videoPath[r] \notin files
    /\ pc[r] = "extract" => videoPath[r] \in files

\* C30: once a run has settled its ticker is cleared, and a settled run
\* publishes nothing more: no tick follows the Error event or the step-4
\* completion event.
C30_TickerCancelledOnSettle ==
  [][\A r \in Runs :
       pc'[r] \in Settled =>
         /\ progressInterval'[r] = {}
         /\ pc[r] \in Settled =>
              /\ out'.run # r
              /\ hist'[r].lastEvent = hist[r].lastEvent
              /\ currentProgress'[r] = currentProgress[r]]_vars

\* a run whose ticker had ticked settles, and more than a tick period
\* later its last event is still the one it settled with
C30_Witness ==
  \E r \in Runs :
    /\ pc[r] \in Settled
    /\ currentProgress[r] > 10
    /\ progressInterval[r] = {}
    /\ now >= hist[r].settledAt + PROGRESS_INTERVAL
    /\ \/ hist[r].lastEvent.type = "error"
       \/ hist[r].lastEvent = FinishEvents[2]

\* the events of the last step that the ticker made
TickerEvents(r) ==
  IF out.run = r
  THEN {out.events[i] : i \in {k \in DOMAIN out.events : out.events[k].message = TickerMessage}}
  ELSE {}

\* C31: every event of the ticker has step 4 and a progress that is the
\* ticker's value, above the value it started from and at most the
\* ceiling of 80.
C31_TickerWithinCeiling ==
  \A r \in Runs :
    /\ currentProgress[r] <= PROGRESS_CEILING
    /\ \A e \in TickerEvents(r) :
         /\ e.type = "progress" /\ e.step = 4
         /\ e.progress = currentProgress[r]
         /\ e.progress > 10 /\ e.progress <= PROGRESS_CEILING

\* the Progress events of the last step
ProgressEvents == {out.events[i] : i \in {k \in DOMAIN out.events : out.events[k].type = "progress"}}

\* C32: every Progress event has a step in 1..4, a progress in 0..100, the
\* overall progress that is (step - 1) * 25 + progress / 4 rounded to the
\* nearest integer (halves up) and capped at 100, and the status that goes
\* with its progress.
C32_ProgressEventShape ==
  \A e \in ProgressEvents :
    LET hundredths == (e.step - 1) * 2500 + e.progress * 25
    IN /\ e.step \in 1..4
       /\ e.progress \in 0..100
       /\ e.overallProgress \in 0..100
       /\ IF hundredths >= 9950 THEN e.overallProgress = 100
          ELSE /\ 100 * e.overallProgress - 50 <= hundredths
               /\ hundredths < 100 * e.overallProgress + 50
       /\ e.status = "completed" <=> e.progress = 100
       /\ e.status = "active" <=> (0 < e.progress /\ e.progress < 100)
       /\ e.status = "pending" <=> e.progress = 0

\* a tick at 82: 75 + 20.5 is rounded up to 96
C32_Witness ==
  \E e \in ProgressEvents :
    /\ e.step = 4 /\ e.progress = 82
    /\ e.overallProgress = 96 /\ e.status = "active"

\* what a run has delivered: its events, its errors and its answer
Delivered(r) ==
  << pc[r], hist[r].lastEvent, hist[r].errorEvents, hist[r].completed,
     hist[r].thrown, hist[r].stageError, hist[r].outcome >>

\* C33: once a run has returned or thrown, no step of its own (the call a
\* timeout left behind completing, a timer that is still armed expiring)
\* publishes an event for it, throws again or changes what it delivered.
C33_SettledIsFinal ==
  [][\A r \in Runs :
       pc[r] \in Settled =>
         /\ out'.run # r
         /\ Delivered(r)' = Delivered(r)
         /\ hist'[r].response.status \in {hist[r].response.status, 200, 500}
         /\ hist[r].response.status # 0 => hist'[r].response = hist[r].response
         /\ files' = files]_vars

\* a run that timed out during inference: the transcriber has resolved
\* since, both timers have expired, and there is the one Error event
C33_Witness ==
  \E r \in Runs :
    /\ pc[r] = "failed"
    /\ hist[r].timeoutPhase = "inferring"
    /\ hist[r].abandoned = "resolved"
    /\ transcriptionTimer[r] = {} /\ overallTimer[r] = {}
    /\ now >= hist[r].transcribeAt + OVERALL_TIMEOUT
    /\ hist[r].errorEvents = 1
    /\ Len(hist[r].thrown) = 1

\* C34: while a run is in its transcription stage both timers are armed,
\* the 60 s one was armed no later than the 90 s one and expires first, and
\* the clock is not past its expiry; a race that a timer decided was
\* decided by the 60 s timer, 60 s after transcribeAudio was called, and
\* never by the 90 s timer.
C34_SixtySecondsDecide ==
  \A r \in Runs :
    /\ pc[r] \in Racing =>
         /\ transcriptionTimer[r] # {} /\ overallTimer[r] # {}
         /\ \A d60 \in transcriptionTimer[r], d90 \in overallTimer[r] :
              /\ d60 - TRANSCRIPTION_TIMEOUT <= d90 - OVERALL_TIMEOUT
              /\ d60 < d90
              /\ now <= d60
    /\ hist[r].timeoutBy # "overall"
    /\ hist[r].timeoutBy = "transcription" =>
         /\ hist[r].settledAt = hist[r].transcribeAt + TRANSCRIPTION_TIMEOUT
         /\ hist[r].stageError # TimerMessage90

\* a model load that never completes: the run has failed by the 60 s timer
\* and the 90 s timer has expired since
C34_Witness ==
  \E r \in Runs :
    /\ pc[r] = "failed"
    /\ hist[r].timeoutBy = "transcription" /\ hist[r].timeoutPhase = "loading"
    /\ hist[r].abandoned = "none"
    /\ overallTimer[r] = {}
    /\ now >= hist[r].transcribeAt + OVERALL_TIMEOUT

\* C35: a run in its transcription stage settles, also when neither the
\* model load nor the inference ever completes; and a settled run has
\* published the step-4 completion event and no Error event, or exactly one
\* Error event.
C35_TranscriptionSettles ==
  /\ \A r \in MainRuns : (pc[r] \in {"loading", "inferring"}) ~> (pc[r] \in Settled)
  /\ [](\A r \in MainRuns :
          pc[r] \in Settled =>
            \/ 4 \in hist[r].completed /\ hist[r].errorEvents = 0 /\ pc[r] = "done"
            \/ hist[r].errorEvents = 1 /\ pc[r] = "failed")

\* the model load never completed and the run has failed by a timer
C35_Witness ==
  \E r \in MainRuns :
    /\ pc[r] = "failed"
    /\ hist[r].timeoutPhase = "loading"
    /\ hist[r].abandoned = "none"
    /\ hist[r].errorEvents = 1
    /\ 4 \notin hist[r].completed
    /\ transcriptionTimer[r] = {}

\* the phrases the catch block looks for, in its order, the category each
\* stands for, and the place of the first one a message holds
Searched ==
  << "rate limit", "429", "No video found", "Tweet not found",
     "No valid Twitter API credentials", "timed out", "memory" >>
SearchedCategory ==
  << "RateLimited", "RateLimited", "NoVideoFound", "NotFound", "NoCredentials",
     "Timeout", "OutOfMemory", "Unknown" >>
FirstSearched(message) ==
  LET found == {k \in DOMAIN Searched : Includes(message, Searched[k])}
  IN IF found = {} THEN Len(Searched) + 1 ELSE CHOOSE k \in found : \A j \in found : k <= j

\* C36: an Error is classified by the first phrase of the fixed order that
\* its message holds, wherever in the message the phrases stand; messages
\* classified alike get one text; an Error that holds none of the phrases
\* is thrown again with its message, published after "Error: "; a value
\* that is not an Error gets the generic texts.
C36_FirstMatchClassifies ==
  call.fn = "caught" =>
    /\ call.event.type = "error" /\ call.event.overallProgress = 100
    /\ IF call.error.isError
       THEN /\ call.category = SearchedCategory[FirstSearched(call.error.message)]
            /\ IF call.category = "Unknown"
               THEN /\ call.thrown = call.error.message
                    /\ call.event.message = <<"Error: ">> \o call.error.message
               ELSE /\ call.thrown = ThrownMessage(<< Searched[FirstSearched(call.error.message)] >>)
                    /\ call.event.message =
                         BroadcastMessage(<< Searched[FirstSearched(call.error.message)] >>)
                    /\ call.thrown # call.error.message
       ELSE /\ call.thrown = <<"Failed to process Twitter video. Unknown error occurred.">>
            /\ call.event.message = <<"Failed to process Twitter video. Please try again later.">>

\* a message that holds 'memory' before 'timed out' is a timeout
C36_Witness ==
  /\ call.fn = "caught"
  /\ call.error.isError
  /\ call.error.message = << "memory", "timed out" >>
  /\ call.category = "Timeout"
  /\ Includes(call.thrown, "timed out") /\ ~Includes(call.thrown, "memory")

\* the run's transcript is in the table
Stored(r) ==
  \E i \in DOMAIN transcripts :
    transcripts[i].run = r /\ transcripts[i].id = hist[r].response.transcript

\* C37 (as stated): a request answered with a failure status after
\* validation has had exactly one Error event; a run whose step-4
\* completion event was published is answered with the stored transcript.
C37_FailureAnswerHasErrorEvent ==
  \A r \in Runs :
    /\ hist[r].response.status = 500 => hist[r].errorEvents = 1
    /\ (4 \in hist[r].completed /\ hist[r].response.status # 0) =>
         hist[r].response.status = 200 /\ Stored(r)

\* C37: a request answered 500 because processTwitterVideo threw has had
\* exactly one Error event and no step-4 completion event; a request
\* answered 500 because the transcript could not be stored has had the
\* step-4 completion event and no Error event; a request answered 200 has
\* had the completion event and its transcript is stored.
C37_FailureAnswerByCause ==
  \A r \in Runs :
    /\ hist[r].response.status \in {0, 200, 400, 500}
    /\ (hist[r].response.status = 500 /\ pc[r] = "failed") =>
         /\ hist[r].errorEvents = 1 /\ 4 \notin hist[r].completed
         /\ hist[r].response.message = LastThrown(r)
    /\ (hist[r].response.status = 500 /\ pc[r] # "failed") =>
         /\ pc[r] = "done"
         /\ hist[r].errorEvents = 0 /\ 4 \in hist[r].completed
         /\ hist[r].response.message = <<"Failed to save transcript to database">>
         /\ \A i \in DOMAIN transcripts : transcripts[i].run # r
    /\ hist[r].response.status = 200 =>
         /\ pc[r] = "done" /\ hist[r].errorEvents = 0 /\ 4 \in hist[r].completed
         /\ Stored(r)
    /\ hist[r].response.status = 400 =>
         hist[r].errorEvents = 0 /\ hist[r].completed = {}

\* a run that returned its transcript, answered 500 because the transcript
\* could not be stored: its last event is the step-4 completion event
C37_Witness ==
  \E r \in Runs :
    /\ hist[r].response.status = 500 /\ pc[r] = "done"
    /\ hist[r].errorEvents = 0
    /\ hist[r].lastEvent = FinishEvents[2]
    /\ hist[r].lastEvent.overallProgress = 100
    /\ transcripts = <<>>

\* the events a run has had so far
HasCompletion(r) == 4 \in hist[r].completed
HasError(r) == hist[r].errorEvents > 0

\* C38: no run has had both the step-4 completion event and an Error
\* event; no step publishes both, and no step publishes one of them for a
\* run that has had the other.
C38_CompletionExcludesError ==
  [][\A r \in Runs :
       /\ ~(HasCompletion(r)' /\ HasError(r)')
       /\ HasCompletion(r) => hist'[r].errorEvents = 0
       /\ HasError(r) => ~HasCompletion(r)' /\ hist'[r].errorEvents = hist[r].errorEvents
       /\ out'.run = r =>
            ~(\E i, j \in DOMAIN out'.events :
                /\ out'.events[i].type = "error"
                /\ out'.events[j] = FinishEvents[2])]_vars

\* a run that has had its completion event, answered and with both timers
\* expired since, and no Error event
C38_Witness ==
  \E r \in Runs :
    /\ HasCompletion(r) /\ ~HasError(r)
    /\ hist[r].response.status # 0
    /\ transcriptionTimer[r] = {} /\ overallTimer[r] = {}
    /\ now >= hist[r].transcribeAt + OVERALL_TIMEOUT

\* an entry whose timestamp lies less than `hours` hours before now
YoungerThan(entry, hours) ==
  entry.present /\ now - entry.timestamp < hours * 60 * 60 * 1000

\* C39: a call of getTwitterVideoInfo asks the API for a post exactly when
\* cache.tweets holds no entry of that post younger than 24 hours; with a
\* younger entry the call makes no request and returns from the cached
\* tweet, leaving cache.tweets as it was; the call takes its video URL from
\* cache.videoUrls only when that entry is younger than 6 hours; and a
\* request the API rejects leaves both maps as they were.
C39_CacheDecidesRequests ==
  [][\A r \in MainRuns :
       LET before == lookup[r]
           after == lookup'[r]
       IN /\ (before.phase # "awaiting" /\ after.phase = "awaiting") =>
               /\ cache' = cache
               /\ after.requests = (IF YoungerThan(cache.tweets[after.tweetId], 24)
                                    THEN 0 ELSE 1)
               /\ after.requests = 0 => after.cachedTweet = cache.tweets[after.tweetId]
               /\ after.urlCached =>
                    /\ YoungerThan(cache.videoUrls[after.tweetId], 6)
                    /\ after.videoUrl = cache.videoUrls[after.tweetId].data
          /\ (before.phase = "awaiting" /\ after.phase # "awaiting") =>
               /\ after.requests = before.requests
               /\ before.requests = 0 =>
                    /\ ~after.rejected
                    /\ cache'.tweets = cache.tweets
                    /\ after.result.ok =>
                         after.result.value.videoUrl =
                           (IF before.urlCached THEN before.videoUrl
                            ELSE extractVideoUrl(before.cachedTweet.data).value)
               /\ (after.result.ok /\ before.urlCached) =>
                    /\ after.result.value.videoUrl = before.videoUrl
                    /\ cache'.videoUrls = cache.videoUrls
               /\ after.rejected => cache' = cache]_vars

\* a call that returned with no request made: the tweet entry it used was
\* hours old, and so was the video URL it reused
C39_Witness ==
  \E r \in MainRuns :
    /\ lookup[r].phase = "returned"
    /\ lookup[r].requests = 0
    /\ lookup[r].cachedTweet.timestamp < lookup[r].startedAt
    /\ lookup[r].urlCached
    /\ cache.videoUrls[lookup[r].tweetId].timestamp < lookup[r].startedAt

\* an observer between its connection event and its close event
Connected(o) == readyState[o] \in {"OPEN", "CLOSING"}

\* C40: observers connected at the same time have distinct identifiers, and
\* every open observer is the registry's entry under its own identifier: no
\* connection has replaced it and no other observer's close has deleted it.
C40_DistinctIdentifiers ==
  /\ \A o, p \in Observers :
       (o # p /\ Connected(o) /\ Connected(p)) => clientId[o] # clientId[p]
  /\ \A o \in Observers : readyState[o] = "OPEN" => clients[clientId[o]] = o

====
